---- MODULE Spec2Model ----
(***************************************************************************)
(* Model of the diet-plan solver core of DietGenerator:                    *)
(*   - calculateExactMacros / the target computation of generateDietPlan   *)
(*   - validateDietPlanSpecifications                                      *)
(*   - calculateMealTotals (meal builder) with convertToGrams              *)
(*   - nnlsSolve                                                           *)
(*   - the attempt loop of generateDietPlan with the quota backoff         *)
(*                                                                         *)
(* Number representation.  The code works on IEEE doubles.  Quantities     *)
(* that the code rounds to one decimal (grams of a macro) are kept here as *)
(* integers counting tenths ("...10"); calories that the code rounds to an *)
(* integer are integers.  Percentages and calorie inputs are also tenths.  *)
(* Math.round(x) is floor(x + 1/2), modelled by Round(n, d) on the exact   *)
(* rational n/d.                                                           *)
(***************************************************************************)
EXTENDS Integers, Sequences, FiniteSets, TLC

VARIABLES
    \* --- harness of calculateExactMacros --------------------------------
    tgtIn,      \* [targetCalories10, deficitSurplus10, proteinPercent10, carbsPercent10, fatPercent10]
    tgtOut,     \* NoCall before the call, then the returned record (status "ok") or Threw
    \* --- harness of validateDietPlanSpecifications ------------------------
    valIn,      \* [meals, selectedFoods, targets..., percents...]
    valOut,     \* NoCall before the call, then [isValid, errors, actualTotals]
    \* --- meal builder: one meal and its totals ----------------------------
    mbFoods,    \* meal.foods, a sequence of portions
    mbTotals,   \* calculateMealTotals(meal) of the current render
    mbPrev,     \* the totals of the render before the last edit
    mbLast,     \* the last edit: [kind, portion, excluded]
    \* --- nnlsSolve ---------------------------------------------------------
    nnIn,       \* the arguments [A, b, maxIter]
    nnX,        \* the local x
    nnIter,     \* the local iter
    nnPc,       \* "idle", "start", "loop", "after", "done"
    nnOut,      \* NoCall, then [status |-> "null"] or [status |-> "array", x]
    \* --- googleAiService module state and one generateDietPlan call --------
    genAI,              \* TRUE when genAI !== null and API_KEY !== ''
    quotaBackoffUntil,  \* seconds; 0 when no backoff was set
    now,                \* Date.now(), in seconds
    gpIn,               \* the arguments of the running or last call
    gpPc,               \* "idle" or "attempt" (at the top of the loop body)
    attempt,            \* the loop variable
    previousAttempts,   \* sequence of [attempt, result, validation]
    gpOut,              \* NoCall, [status |-> "null" | "plan" | "error", ...]
    gpLog,              \* bookkeeping of the call: [calls, available, blocked,
                        \* attemptsDone, requests, request (the last helper's prompt data)]
    mcIn,               \* the arguments of the macroCorrectionLoop call
    mcPc,               \* "idle", "start", "solve" (inside nnlsSolve) or "done"
    mcOut,              \* NoCall or the returned object
    pdIn,               \* the arguments of the processDietPlanResponse call
    pdPc,               \* "idle", "start", "loop" or "done"
    pdPos,              \* [meal, food]: the position of the two loops
    pdMeals,            \* meals
    pdFoods,            \* meal.foods of the meal being built
    pdSelected,         \* selectedFoods
    pdOut,              \* NoCall, [status |-> "null"] or the returned plan
    \* --- one selectBestFood call, concurrent with the planning session ----
    sbPc,               \* "idle" or "request" (awaiting generateContent)
    sbOut,              \* NoCall, [status |-> "null" | "choice" | "quotaError"]
    \* --- one call of a portion-correction strategy -------------------------
    csIn,               \* [strategy, selectedFoods, targets, options, ...]
    csPlan,             \* the caller's meals array, passed as `meals`
    csNew,              \* newMeals, the deep copy the strategy writes to
    csIt,               \* the loop variable `it` of redistributePortionsForMacros
    csPc,               \* "idle", "start", "loop", "final", "solve" or "done"
    csOut,              \* NoCall, [status |-> "null"] or [status |-> "meals", meals]
    \* --- macroProfileCache and concurrent fetchAndCacheProfile calls -------
    macroProfileCache,  \* the Map: a function from lower-case keys to profiles
    fcCall,             \* per session: [pc, name, source, out] of its current or last
                        \* call, and `made`, the number of calls it has made
    fcLog               \* bookkeeping: [calls, lookups, returned (<<key, profile>> pairs
                        \* produced by external lookups)]

tgtVars == <<tgtIn, tgtOut>>
valVars == <<valIn, valOut>>
mbVars == <<mbFoods, mbTotals, mbPrev, mbLast>>
nnVars == <<nnIn, nnX, nnIter, nnPc, nnOut>>
aiVars == <<genAI, quotaBackoffUntil, now>>
gpVars == <<gpIn, gpPc, attempt, previousAttempts, gpOut, gpLog>>
mcVars == <<mcIn, mcPc, mcOut>>
pdVars == <<pdIn, pdPc, pdPos, pdMeals, pdFoods, pdSelected, pdOut>>
sbVars == <<sbPc, sbOut>>
csVars == <<csIn, csPlan, csNew, csIt, csPc, csOut>>
fcVars == <<macroProfileCache, fcCall, fcLog>>
laterVars == <<sbVars, csVars, fcVars>>
vars == <<tgtIn, tgtOut, valIn, valOut, mbFoods, mbTotals, mbPrev, mbLast,
          nnIn, nnX, nnIter, nnPc, nnOut,
          genAI, quotaBackoffUntil, now,
          gpIn, gpPc, attempt, previousAttempts, gpOut, gpLog,
          mcIn, mcPc, mcOut,
          pdIn, pdPc, pdPos, pdMeals, pdFoods, pdSelected, pdOut,
          sbPc, sbOut,
          csIn, csPlan, csNew, csIt, csPc, csOut,
          macroProfileCache, fcCall, fcLog>>

\* The value of a harness variable before its function has been called, and
\* the outcome of a call that ended in `throw new Error(...)`.
NoCall == [status |-> "none"]
Threw  == [status |-> "threw"]

\* The components that are at rest in a specification that does not run them.
SbIdle == sbPc = "idle" /\ sbOut = NoCall
CsIdle ==
    /\ csIn = NoCall /\ csPlan = << >> /\ csNew = << >> /\ csIt = 0
    /\ csPc = "idle" /\ csOut = NoCall
\* The sessions that call fetchAndCacheProfile concurrently.
FcSessions == {"s1", "s2"}
\* const macroProfileCache = new Map(), and no call in progress.
FcIdle ==
    /\ macroProfileCache = << >>
    /\ fcCall = [ s \in FcSessions |-> [pc |-> "idle", name |-> "", source |-> "none", out |-> NoCall, made |-> 0] ]
    /\ fcLog = [ calls |-> 0, lookups |-> 0, returned |-> {} ]
LaterIdle == SbIdle /\ CsIdle /\ FcIdle

(***************************************************************************)
(* Arithmetic helpers                                                      *)
(***************************************************************************)

\* Math.round(n/d) for d > 0: floor(n/d + 1/2); ties go towards +infinity.
Round(n, d) == (2 * n + d) \div (2 * d)

\* Math.abs
Abs(x) == IF x < 0 THEN 0 - x ELSE x

\* Math.max / Math.min
Max(a, b) == IF a >= b THEN a ELSE b
Min(a, b) == IF a <= b THEN a ELSE b

(***************************************************************************)
(* Target Calculator: calculateExactMacros, and the same computation       *)
(* inlined in generateDietPlan.                                            *)
(***************************************************************************)

\* Mutant of the percentage check: every sum is accepted.
PercentSumInvalid_Never(p10, c10, f10) == FALSE

\* Math.abs(totalPercent - 100) > 0.1, percentages in tenths of a point.
PercentSumInvalid(p10, c10, f10) == Abs((p10 + c10 + f10) - 1000) > 1

\* Math.round(targetCalories * (percent / 100)): calories in tenths of a kcal,
\* percent in tenths of a point.
MacroCalories(cal10, pct10) == Round(cal10 * pct10, 10000)

\* Math.round((calories / perGram) * 10) / 10, result in tenths of a gram;
\* calories10 is the calorie amount in tenths of a kcal.
GramsFromCalories10(calories10, perGram) == Round(calories10, perGram)

\* Math.round(grams * perGram), grams in tenths of a gram.
CaloriesFromGrams(grams10, perGram) == Round(grams10 * perGram, 10)

\* Mutant of AdjustedFatCalories10: the rounding discrepancy is dropped.
AdjustedFatCalories10_NoDiscrepancy(cal10, p10, c10, f10) ==
    10 * MacroCalories(cal10, f10)

\* The fat calories after the rounding discrepancy has been added
\* (adjustedFatCalories), in tenths of a kcal because the target may be
\* fractional.
AdjustedFatCalories10(cal10, p10, c10, f10) ==
    LET proteinCalories == MacroCalories(cal10, p10)
        carbsCalories   == MacroCalories(cal10, c10)
        fatCalories     == MacroCalories(cal10, f10)
        totalCalculatedCalories == proteinCalories + carbsCalories + fatCalories
        calorieDiscrepancy10 == cal10 - 10 * totalCalculatedCalories
    IN  10 * fatCalories + calorieDiscrepancy10

\* calculateExactMacros(targetCalories, proteinPercent, carbsPercent, fatPercent)
\* for percentages that passed the sum check.
calculateExactMacros(cal10, p10, c10, f10) ==
    LET proteinCalories == MacroCalories(cal10, p10)
        carbsCalories   == MacroCalories(cal10, c10)
        proteinGrams10  == GramsFromCalories10(10 * proteinCalories, 4)
        carbsGrams10    == GramsFromCalories10(10 * carbsCalories, 4)
        adjustedFatGrams10 ==
            GramsFromCalories10(AdjustedFatCalories10(cal10, p10, c10, f10), 9)
        finalProteinCalories == CaloriesFromGrams(proteinGrams10, 4)
        finalCarbsCalories   == CaloriesFromGrams(carbsGrams10, 4)
        finalFatCalories     == CaloriesFromGrams(adjustedFatGrams10, 9)
    IN  [ status          |-> "ok",
          proteinGrams10  |-> proteinGrams10,
          carbsGrams10    |-> carbsGrams10,
          fatGrams10      |-> adjustedFatGrams10,
          proteinCalories |-> finalProteinCalories,
          carbsCalories   |-> finalCarbsCalories,
          fatCalories     |-> finalFatCalories,
          totalCalories   |-> finalProteinCalories + finalCarbsCalories + finalFatCalories ]

\* calculateAdjustedTargetCalories: baseTDEE + deficitSurplus
calculateAdjustedTargetCalories(baseTDEE10, deficitSurplus10) ==
    baseTDEE10 + deficitSurplus10

\* Base metabolic targets (TDEE) in tenths of a kcal.  calculateTDEE returns
\* bmr * activityMultiplier unrounded, so fractional values occur.
TargetCaloriesSet == {350, 1000, 12000, 18505, 20000, 26004, 30000}

\* Signed calorie adjustments in tenths of a kcal.
DeficitSurplusSet == {-4000, 0, 2500}

\* Macro percentage triples <<protein, carbs, fat>> in tenths of a point.
ValidPercentSet ==
    { <<400, 350, 250>>, <<250, 450, 300>>, <<333, 333, 334>>,
      <<300, 400, 300>>, <<100, 500, 400>>, <<600, 50, 350>> }
InvalidPercentSet == { <<400, 400, 300>>, <<500, 300, 100>>, <<333, 333, 330>> }
PercentSet == ValidPercentSet \cup InvalidPercentSet

\* The planning inputs: a positive adjusted target and a percentage triple.
SessionInputs ==
    { [ targetCalories10 |-> b, deficitSurplus10 |-> a,
        proteinPercent10 |-> t[1], carbsPercent10 |-> t[2], fatPercent10 |-> t[3] ] :
        b \in TargetCaloriesSet, a \in DeficitSurplusSet, t \in PercentSet }

AdjustedOf(in) == calculateAdjustedTargetCalories(in.targetCalories10, in.deficitSurplus10)

TgtInit ==
    /\ tgtIn \in { in \in SessionInputs : AdjustedOf(in) > 0 }
    /\ tgtOut = NoCall

\* One call of calculateExactMacros on the adjusted target.
CallCalculateExactMacros ==
    /\ tgtOut.status = "none"
    /\ tgtOut' =
         IF PercentSumInvalid(tgtIn.proteinPercent10, tgtIn.carbsPercent10, tgtIn.fatPercent10)
         THEN Threw
         ELSE calculateExactMacros(AdjustedOf(tgtIn), tgtIn.proteinPercent10,
                                   tgtIn.carbsPercent10, tgtIn.fatPercent10)
    /\ UNCHANGED <<tgtIn, valVars, mbVars, nnVars, aiVars, gpVars, mcVars, pdVars, laterVars>>

(***************************************************************************)
(* Food data: FoodItem profiles (per 100 g) and meal plans.                *)
(* A profile is [calories_per_100g, protein10, carbs10, fat10] with the    *)
(* macro grams per 100 g in tenths.  A portion (FoodEntry) is              *)
(* [id, quantity10, unit, isAlternative] with the quantity in tenths.      *)
(* selectedFoods is a function from entry ids to profiles; an id outside   *)
(* its domain is `selectedFoods[food.id] === undefined`.                   *)
(***************************************************************************)

Profile(cal, p10, c10, f10) ==
    [ calories_per_100g |-> cal, protein10 |-> p10, carbs10 |-> c10, fat10 |-> f10 ]

Portion(id, q10, alt) ==
    [ id |-> id, quantity10 |-> q10, unit |-> "g", isAlternative |-> alt ]

\* All portions of a plan in meal order: `for (const meal of meals) for (const
\* food of meal.foods)`.
RECURSIVE FlattenFoods(_)
FlattenFoods(meals) ==
    IF meals = << >> THEN << >>
    ELSE Head(meals).foods \o FlattenFoods(Tail(meals))

\* Math.round(perHundred * (quantity / 100)) with the quantity in tenths of a
\* gram: the calories of one portion, or with perHundred in tenths of a gram
\* the portion's macro in tenths of a gram (Math.round(x * mult * 10) / 10).
PortionAmount(perHundred, quantity10) == Round(perHundred * quantity10, 1000)

(***************************************************************************)
(* Validation Engine: validateDietPlanSpecifications                       *)
(***************************************************************************)

\* `if (selectedFood && food.quantity)`: the portion has a profile and a
\* non-zero quantity.  The flag isAlternative is not read.
ValidateCounts(food, selectedFoods) ==
    food.id \in DOMAIN selectedFoods /\ food.quantity10 # 0

\* The accumulation loop of validateDietPlanSpecifications over the
\* flattened portions.
RECURSIVE ValidateTotals(_, _)
ValidateTotals(foods, selectedFoods) ==
    IF foods = << >>
    THEN [ calories |-> 0, protein10 |-> 0, carbs10 |-> 0, fat10 |-> 0 ]
    ELSE LET food == Head(foods)
             rest == ValidateTotals(Tail(foods), selectedFoods)
         IN  IF ValidateCounts(food, selectedFoods)
             THEN LET sf == selectedFoods[food.id]
                  IN  [ calories  |-> rest.calories + PortionAmount(sf.calories_per_100g, food.quantity10),
                        protein10 |-> rest.protein10 + PortionAmount(sf.protein10, food.quantity10),
                        carbs10   |-> rest.carbs10 + PortionAmount(sf.carbs10, food.quantity10),
                        fat10     |-> rest.fat10 + PortionAmount(sf.fat10, food.quantity10) ]
             ELSE rest

\* Mutant of ActualPercent: every macro is converted at 4 kcal per gram.
ActualPercent_Always4(macro10, kcalPerGram, totalCalories) ==
    IF totalCalories = 0
    THEN IF macro10 = 0 THEN [kind |-> "NaN", v |-> 0] ELSE [kind |-> "Infinity", v |-> 0]
    ELSE [kind |-> "num", v |-> Round(macro10 * 4 * 10, totalCalories)]

\* Math.round((totalMacro * kcalPerGram / totalCalories) * 100).  A division
\* by zero gives NaN (0/0) or Infinity (x/0, x > 0) in the code.
ActualPercent(macro10, kcalPerGram, totalCalories) ==
    IF totalCalories = 0
    THEN IF macro10 = 0 THEN [kind |-> "NaN", v |-> 0] ELSE [kind |-> "Infinity", v |-> 0]
    ELSE [kind |-> "num", v |-> Round(macro10 * kcalPerGram * 10, totalCalories)]

\* Mutant of CalorieDeviationTooHigh: the comparison is not strict.
CalorieDeviationTooHigh_NotStrict(deviation10) == deviation10 >= 1500

\* calorieDeviation > 150 (deviation in tenths of a kcal)
CalorieDeviationTooHigh(deviation10) == deviation10 > 1500

\* proteinDeviation > 15, carbsDeviation > 15, fatDeviation > 15 (tenths of a gram)
MacroDeviationTooHigh(deviation10) == deviation10 > 150

\* Math.abs(actualPercent - targetPercent) > 3; NaN compares false.
PercentageOff(actual, targetPercent10) ==
    CASE actual.kind = "NaN"      -> FALSE
      [] actual.kind = "Infinity" -> TRUE
      [] OTHER                    -> Abs(10 * actual.v - targetPercent10) > 30

\* errors.push(...) when the condition holds
PushIf(errors, cond, tag) == IF cond THEN Append(errors, tag) ELSE errors

validateDietPlanSpecifications(meals, selectedFoods, targetCalories10, targetProtein10, targetCarbs10, targetFat10, proteinPercent10, carbsPercent10, fatPercent10) ==
    LET t == ValidateTotals(FlattenFoods(meals), selectedFoods)
        calorieDeviation10 == Abs(10 * t.calories - targetCalories10)
        proteinDeviation10 == Abs(t.protein10 - targetProtein10)
        carbsDeviation10   == Abs(t.carbs10 - targetCarbs10)
        fatDeviation10     == Abs(t.fat10 - targetFat10)
        actualProteinPercent == ActualPercent(t.protein10, 4, t.calories)
        actualCarbsPercent   == ActualPercent(t.carbs10, 4, t.calories)
        actualFatPercent     == ActualPercent(t.fat10, 9, t.calories)
        e1 == PushIf(<< >>, CalorieDeviationTooHigh(calorieDeviation10), "CALORIE")
        e2 == PushIf(e1, MacroDeviationTooHigh(proteinDeviation10), "PROTEIN")
        e3 == PushIf(e2, MacroDeviationTooHigh(carbsDeviation10), "CARBS")
        e4 == PushIf(e3, MacroDeviationTooHigh(fatDeviation10), "FAT")
        e5 == PushIf(e4, PercentageOff(actualProteinPercent, proteinPercent10), "PROTEIN_PERCENT")
        e6 == PushIf(e5, PercentageOff(actualCarbsPercent, carbsPercent10), "CARBS_PERCENT")
        errors == PushIf(e6, PercentageOff(actualFatPercent, fatPercent10), "FAT_PERCENT")
    IN  [ status  |-> "ok",
          isValid |-> Len(errors) = 0,
          errors  |-> errors,
          actualTotals |->
            [ calories |-> t.calories, protein10 |-> t.protein10,
              carbs10 |-> t.carbs10, fat10 |-> t.fat10,
              proteinPercent |-> actualProteinPercent,
              carbsPercent |-> actualCarbsPercent,
              fatPercent |-> actualFatPercent ] ]

(***************************************************************************)
(* Candidate plans handed to the validation engine.  They are built around *)
(* the session's targets from single-macro foods, so that every deviation  *)
(* can be set on its own: protein, carbs and fat portions of               *)
(* (target + delta) grams, an extra portion of a food that carries only    *)
(* calories, an optional alternative portion and a placeholder portion     *)
(* whose food was not found.                                               *)
(***************************************************************************)

PureProtein  == Profile(400, 1000, 0, 0)
PureCarbs    == Profile(400, 0, 1000, 0)
PureFat      == Profile(900, 0, 0, 1000)
CaloriesOnly == Profile(100, 0, 0, 0)
OatsRolled   == Profile(389, 169, 663, 69)

PlanFoods ==
    [ id \in {"protein", "carbs", "fat", "extra", "alt"} |->
        CASE id = "protein" -> PureProtein
          [] id = "carbs"   -> PureCarbs
          [] id = "fat"     -> PureFat
          [] id = "extra"   -> CaloriesOnly
          [] OTHER          -> OatsRolled ]

\* Gram deltas (tenths of a gram) around a target, and extra grams of the
\* calories-only food (tenths of a gram; 1 g carries 1 kcal).
MacroDeltaSet == {-160, 0, 150, 151}
ExtraSet      == {0, 300, 1500, 1510}

PlanShapes ==
    [ dProtein : MacroDeltaSet, dCarbs : {0, 150, 151}, dFat : {0, 151},
      extra : ExtraSet, alt : BOOLEAN ]

\* The plan of a shape for the targets tg (a result of calculateExactMacros).
PlanOf(tg, sh) ==
    << [ name  |-> "Meal 1",
         foods |-> << Portion("protein", tg.proteinGrams10 + sh.dProtein, FALSE),
                      Portion("carbs", tg.carbsGrams10 + sh.dCarbs, FALSE) >> ],
       [ name  |-> "Meal 2",
         foods |-> << Portion("fat", tg.fatGrams10 + sh.dFat, FALSE),
                      Portion("extra", sh.extra, FALSE),
                      Portion("missing", 1000, FALSE) >>
                   \o (IF sh.alt THEN << Portion("alt", 1000, TRUE) >> ELSE << >>) ] >>

TargetsOf(in) ==
    calculateExactMacros(AdjustedOf(in), in.proteinPercent10, in.carbsPercent10, in.fatPercent10)

\* The sessions whose targets were computed: positive adjusted target and a
\* percentage triple that passed the sum check.
ValidSessions ==
    { in \in SessionInputs :
        /\ AdjustedOf(in) > 0
        /\ ~PercentSumInvalid(in.proteinPercent10, in.carbsPercent10, in.fatPercent10) }

ValInit ==
    /\ \E in \in ValidSessions :
         \E sh \in { s \in PlanShapes : TargetsOf(in).proteinGrams10 + s.dProtein >= 0 } :
            valIn = [ status |-> "in", session |-> in, shape |-> sh,
                      meals |-> PlanOf(TargetsOf(in), sh), selectedFoods |-> PlanFoods ]
    /\ valOut = NoCall

\* One call of validateDietPlanSpecifications with the arguments generateDietPlan
\* passes: the adjusted target, the gram targets and the target percentages.
CallValidate ==
    /\ valOut.status = "none"
    /\ LET in == valIn.session
           tg == TargetsOf(in)
       IN  valOut' = validateDietPlanSpecifications(
                        valIn.meals, valIn.selectedFoods, AdjustedOf(in),
                        tg.proteinGrams10, tg.carbsGrams10, tg.fatGrams10,
                        in.proteinPercent10, in.carbsPercent10, in.fatPercent10)
    /\ UNCHANGED <<valIn, tgtVars, mbVars, nnVars, aiVars, gpVars, mcVars, pdVars, laterVars>>

TgtIdle == tgtIn = NoCall /\ tgtOut = NoCall
(***************************************************************************)
(* Meal builder: convertToGrams, calculateFoodMacros, calculateMealTotals  *)
(* A meal-builder portion carries a unit; the FoodItem of its entry id     *)
(* carries the optional servingInfo and altMeasures.                       *)
(***************************************************************************)

MbPortion(id, q10, unit, alt) ==
    [ id |-> id, quantity10 |-> q10, unit |-> unit, isAlternative |-> alt ]

\* servingInfo / altMeasures absent: serving_qty 0 (falsy), no measures.
NoServing == [ serving_weight_grams |-> 0, serving_qty |-> 0, serving_unit |-> "" ]

MbFood(profile, servingInfo, altMeasures) ==
    [ profile |-> profile, servingInfo |-> servingInfo, altMeasures |-> altMeasures ]

\* The units that occur in the modelled meals.
UnitSet == {"g", "tbsp", "slice", "large"}

\* The rows of unitConversions that are substrings of a unit of UnitSet, in
\* table order: 'g', 'tbsp', 'l', 'slice', 'large'.
UnitConversionRows ==
    << [unit |-> "g",     gramsPerUnit |-> 1,    category |-> "weight"],
       [unit |-> "tbsp",  gramsPerUnit |-> 15,   category |-> "volume"],
       [unit |-> "l",     gramsPerUnit |-> 1000, category |-> "volume"],
       [unit |-> "slice", gramsPerUnit |-> 0,    category |-> "piece"],
       [unit |-> "large", gramsPerUnit |-> 0,    category |-> "piece"] >>

\* normalizedUnit.includes(sub) for the strings above.
UnitIncludes(unit, sub) ==
    \/ unit = sub
    \/ <<unit, sub>> \in { <<"slice", "l">>, <<"large", "l">>, <<"large", "g">> }

NotFound == [unit |-> "", measure |-> "", found |-> FALSE]

\* altMeasures.find(measure => unit === measure.measure || unit.includes(measure.measure))
RECURSIVE FindMeasure(_, _)
FindMeasure(altMeasures, unit) ==
    IF altMeasures = << >> THEN NotFound
    ELSE IF UnitIncludes(unit, Head(altMeasures).measure) THEN Head(altMeasures)
    ELSE FindMeasure(Tail(altMeasures), unit)

\* unitConversions.find(c => unit === c.unit || unit.includes(c.unit))
RECURSIVE FindConversion(_, _)
FindConversion(rows, unit) ==
    IF rows = << >> THEN NotFound
    ELSE IF UnitIncludes(unit, Head(rows).unit) THEN Head(rows)
    ELSE FindConversion(Tail(rows), unit)

\* convertToGrams(quantity, unit, servingWeightGrams, servingQty, servingUnit,
\* altMeasures), in tenths of a gram.  The serving weights of the modelled
\* foods are whole multiples of the serving quantity.
convertToGrams(quantity10, unit, servingInfo, altMeasures) ==
    LET matchingMeasure == FindMeasure(altMeasures, unit)
        conversion == FindConversion(UnitConversionRows, unit)
        hasServing == servingInfo.serving_weight_grams # 0 /\ servingInfo.serving_qty # 0
    IN  IF quantity10 <= 0 THEN 0
        ELSE IF matchingMeasure # NotFound
             THEN quantity10 * (matchingMeasure.serving_weight \div matchingMeasure.qty)
        ELSE IF servingInfo.serving_unit # "" /\ unit = servingInfo.serving_unit /\ hasServing
             THEN quantity10 * (servingInfo.serving_weight_grams \div servingInfo.serving_qty)
        ELSE IF conversion = NotFound THEN quantity10
        ELSE IF conversion.category = "piece" /\ hasServing
             THEN quantity10 * (servingInfo.serving_weight_grams \div servingInfo.serving_qty)
        ELSE IF conversion.gramsPerUnit > 0 THEN quantity10 * conversion.gramsPerUnit
        ELSE quantity10

\* Mutant of calculateFoodMacros: the amounts are truncated, not rounded.
calculateFoodMacros_Truncated(profile, grams10) ==
    [ calories  |-> (profile.calories_per_100g * grams10) \div 1000,
      protein10 |-> (profile.protein10 * grams10) \div 1000,
      carbs10   |-> (profile.carbs10 * grams10) \div 1000,
      fat10     |-> (profile.fat10 * grams10) \div 1000 ]

\* calculateFoodMacros(food, quantity): calories rounded to an integer, macros
\* to one decimal (kept in tenths).
calculateFoodMacros(profile, grams10) ==
    [ calories  |-> PortionAmount(profile.calories_per_100g, grams10),
      protein10 |-> PortionAmount(profile.protein10, grams10),
      carbs10   |-> PortionAmount(profile.carbs10, grams10),
      fat10     |-> PortionAmount(profile.fat10, grams10) ]

ZeroTotals == [ calories |-> 0, protein10 |-> 0, carbs10 |-> 0, fat10 |-> 0 ]

AddTotals(a, b) ==
    [ calories  |-> a.calories + b.calories,
      protein10 |-> a.protein10 + b.protein10,
      carbs10   |-> a.carbs10 + b.carbs10,
      fat10     |-> a.fat10 + b.fat10 ]

\* The reducer of calculateMealTotals for one food entry.
MealEntryMacros(foodEntry, selectedFoods) ==
    IF foodEntry.isAlternative THEN ZeroTotals
    ELSE IF foodEntry.id \in DOMAIN selectedFoods /\ foodEntry.quantity10 # 0
         THEN LET food == selectedFoods[foodEntry.id]
              IN  calculateFoodMacros(food.profile,
                      convertToGrams(foodEntry.quantity10, foodEntry.unit,
                                     food.servingInfo, food.altMeasures))
         ELSE ZeroTotals

\* calculateMealTotals(meal): meal.foods.reduce(...)
RECURSIVE calculateMealTotals(_, _)
calculateMealTotals(foods, selectedFoods) ==
    IF foods = << >> THEN ZeroTotals
    ELSE AddTotals(calculateMealTotals(SubSeq(foods, 1, Len(foods) - 1), selectedFoods),
                   MealEntryMacros(foods[Len(foods)], selectedFoods))

\* FoodItems selected in the meal builder.
ChickenBreast == Profile(165, 310, 0, 36)
OliveOil      == Profile(884, 0, 0, 1000)
WholeBread    == Profile(247, 130, 410, 34)
EggWhole      == Profile(143, 126, 7, 95)

MbSelectedFoods ==
    [ id \in {"chicken", "oil", "bread", "egg", "oats"} |->
        CASE id = "chicken" -> MbFood(ChickenBreast, NoServing, << >>)
          [] id = "oil"     -> MbFood(OliveOil, NoServing, << >>)
          [] id = "bread"   -> MbFood(WholeBread,
                                 [ serving_weight_grams |-> 30, serving_qty |-> 1,
                                   serving_unit |-> "slice" ], << >>)
          [] id = "egg"     -> MbFood(EggWhole, NoServing,
                                 << [measure |-> "large", serving_weight |-> 50, qty |-> 1] >>)
          [] OTHER          -> MbFood(OatsRolled, NoServing, << >>) ]

\* The food entries a meal starts from.  "blank" is an entry whose food has
\* not been selected yet.
MbPortionSet ==
    { MbPortion("chicken", 1500, "g", FALSE),
      MbPortion("oats", 455, "g", TRUE),
      MbPortion("oil", 15, "tbsp", TRUE),
      MbPortion("bread", 20, "slice", TRUE),
      MbPortion("egg", 30, "large", FALSE),
      MbPortion("egg", 10, "large", TRUE),
      MbPortion("chicken", 0, "g", FALSE),
      MbPortion("blank", 1000, "g", FALSE) }

\* Bounds of the meal-builder model: foods of the initial meal, foods added.
MaxMealFoods == 2
MaxAddedFoods == 1

NoEdit == [ kind |-> "none", portion |-> MbPortion("", 0, "g", FALSE), excluded |-> FALSE ]

\* The entry does not take part in the totals of the current render.
ExcludedFromTotals(foodEntry) ==
    MealEntryMacros(foodEntry, MbSelectedFoods) = ZeroTotals

MbInit ==
    /\ mbFoods \in UNION { [1..n -> MbPortionSet] : n \in 1..MaxMealFoods }
    /\ mbTotals = calculateMealTotals(mbFoods, MbSelectedFoods)
    /\ mbPrev = ZeroTotals
    /\ mbLast = NoEdit

\* updateFood with the entry's isAlternative set to true, followed by the
\* render that recomputes the meal totals.
MarkAlternative(i) ==
    /\ mbFoods' = [mbFoods EXCEPT ![i] = [@ EXCEPT !.isAlternative = TRUE]]
    /\ mbTotals' = calculateMealTotals(mbFoods', MbSelectedFoods)
    /\ mbPrev' = mbTotals
    /\ mbLast' = [ kind |-> "mark", portion |-> mbFoods[i],
                   excluded |-> ExcludedFromTotals(mbFoods[i]) ]
    /\ UNCHANGED <<tgtVars, valVars, nnVars, aiVars, gpVars, mcVars, pdVars, laterVars>>

\* addFood followed by updateFood: a new entry with the food, quantity and
\* unit of entry i and no isAlternative flag is appended, and the render
\* recomputes the meal totals.
AddDuplicate(i) ==
    /\ Len(mbFoods) < MaxMealFoods + MaxAddedFoods
    /\ mbFoods' = Append(mbFoods, [mbFoods[i] EXCEPT !.isAlternative = FALSE])
    /\ mbTotals' = calculateMealTotals(mbFoods', MbSelectedFoods)
    /\ mbPrev' = mbTotals
    /\ mbLast' = [ kind |-> "duplicate", portion |-> mbFoods[i],
                   excluded |-> ExcludedFromTotals(mbFoods[i]) ]
    /\ UNCHANGED <<tgtVars, valVars, nnVars, aiVars, gpVars, mcVars, pdVars, laterVars>>

MbIdle == mbFoods = << >> /\ mbTotals = ZeroTotals /\ mbPrev = ZeroTotals /\ mbLast = NoEdit

(***************************************************************************)
(* nnlsSolve(A, b, maxIter)                                                *)
(* A is a sequence of m = 3 rows of n entries and b has m entries, both in *)
(* the same fixed-point unit (tenths here, thousandths in the correction   *)
(* loop); x is kept in units of 1e-4, the convergence threshold, and the   *)
(* divisions of the step are rounded to the nearest unit.                  *)
(***************************************************************************)

\* 1 / 1e-4: the units of x per gram.
XScale == 10000
\* 1e-9 in the units of the step: -g / 1e-9 for g in 1e-6 and x in 1e-4.
TinyDenomFactor == 10000000

NnRows(A) == Len(A)
\* n = A[0]?.length || 0
NnCols(A) == IF Len(A) = 0 THEN 0 ELSE Len(A[1])

\* for (k < m) s += At[i][k] * A[k][j], over the first k rows
RECURSIVE ColumnProduct(_, _, _, _)
ColumnProduct(A, i, j, k) ==
    IF k = 0 THEN 0 ELSE ColumnProduct(A, i, j, k - 1) + A[k][i] * A[k][j]

\* for (k < m) sb += At[i][k] * b[k], over the first k rows
RECURSIVE ColumnTarget(_, _, _, _)
ColumnTarget(A, b, i, k) ==
    IF k = 0 THEN 0 ELSE ColumnTarget(A, b, i, k - 1) + A[k][i] * b[k]

\* AtA[i][j]   (hundredths)
AtA(A, i, j) == ColumnProduct(A, i, j, NnRows(A))
\* Atb[i]      (hundredths)
Atb(A, b, i) == ColumnTarget(A, b, i, NnRows(A))

\* for (j < n) g += AtA[i][j] * x[j], over the first j coordinates
RECURSIVE GradientSum(_, _, _, _)
GradientSum(A, x, i, j) ==
    IF j = 0 THEN 0 ELSE GradientSum(A, x, i, j - 1) + AtA(A, i, j) * x[j]

\* Mutant of the projection: the new value is not clamped.
ProjectNonNegative_None(newVal) == newVal

\* if (newVal < 0) newVal = 0
ProjectNonNegative(newVal) == IF newVal < 0 THEN 0 ELSE newVal

\* a * r = q * d + rem for a >= 0, r >= 0, d > 0, by long division over
\* the base-100 digits of r: no intermediate exceeds 100 * d + 99 * a, so
\* the quotients of nnlsSolve stay inside the integers of the checker.
RECURSIVE LongDivide(_, _, _)
LongDivide(a, r, d) ==
    IF r = 0 THEN [q |-> 0, rem |-> 0]
    ELSE LET hi == LongDivide(a, r \div 100, d)
             t == hi.rem * 100 + a * (r % 100)
         IN  [q |-> hi.q * 100 + t \div d, rem |-> t % d]

\* a * x / d for d > 0, to the nearest unit (halves away from zero).
ScaledQuotient(a, x, d) ==
    LET qr == LongDivide(Min(Abs(a), Abs(x)), Max(Abs(a), Abs(x)), d)
        n == qr.q + (IF 2 * qr.rem >= d THEN 1 ELSE 0)
    IN  IF (a < 0) = (x < 0) THEN n ELSE -n

\* for (j < n) g += AtA[i][j] * x[j], divided by AtA[i][i] term by term
RECURSIVE GradientQuotient(_, _, _, _)
GradientQuotient(A, x, i, j) ==
    IF j = 0 THEN 0
    ELSE GradientQuotient(A, x, i, j - 1) + ScaledQuotient(AtA(A, i, j), x[j], AtA(A, i, i))

\* The body of the inner loop for coordinate i: step = -g / denom with
\* g = -Atb[i] + sum_j AtA[i][j] * x[j] and denom = AtA[i][i] || 1e-9.
CoordinateUpdate(A, b, x, i) ==
    LET diag == AtA(A, i, i)
        step == IF diag > 0
                THEN ScaledQuotient(Atb(A, b, i), XScale, diag) - GradientQuotient(A, x, i, Len(x))
                ELSE (Atb(A, b, i) * XScale - GradientSum(A, x, i, Len(x))) * TinyDenomFactor
    IN  ProjectNonNegative(x[i] + step)

\* One pass of the inner loop from coordinate i on: [x, maxChange].
RECURSIVE SweepFrom(_, _, _, _, _)
SweepFrom(A, b, x, maxChange, i) ==
    IF i > Len(x) THEN [x |-> x, maxChange |-> maxChange]
    ELSE LET newVal == CoordinateUpdate(A, b, x, i)
             change == Abs(newVal - x[i])
         IN  SweepFrom(A, b, [x EXCEPT ![i] = newVal], Max(maxChange, change), i + 1)

\* Bound of the nnlsSolve model: the number of candidate foods (columns).
MaxColumns == 2

\* Columns [protein, carbs, fat] per gram in tenths: a protein powder, rice,
\* oil, a food without macros, and a column with a negative entry.
NnColumnSet ==
    { <<8, 1, 0>>, <<1, 8, 0>>, <<0, 0, 10>>, <<0, 0, 0>>, <<-5, 5, 0>> }

\* Right-hand sides in tenths of a gram.
NnTargetSet ==
    { <<0, 0, 0>>, <<100, 50, 20>>, <<-50, 30, 0>>, <<-100, -100, -100>> }

\* maxIter: a cap that is hit, and the default of the signature.
NnMaxIterSet == {2, 500}

\* The 3 x n matrix with the given columns.
MatrixOf(cols) == [k \in 1..3 |-> [j \in 1..Len(cols) |-> cols[j][k]]]

NnMatrices == { MatrixOf(cols) : cols \in UNION { [1..n -> NnColumnSet] : n \in 0..MaxColumns } }

NnInit ==
    /\ nnIn \in [A : NnMatrices, b : NnTargetSet, maxIter : NnMaxIterSet]
    /\ nnX = << >>
    /\ nnIter = 0
    /\ nnPc = "start"
    /\ nnOut = NoCall

\* Lines 1878-1885: the early return for n = 0, else x = zeros.
NnlsEnter ==
    /\ nnPc = "start"
    /\ LET n == NnCols(nnIn.A)
       IN  IF n = 0
           THEN /\ nnOut' = [status |-> "array", x |-> << >>]
                /\ nnPc' = "done"
                /\ UNCHANGED nnX
           ELSE /\ nnX' = [i \in 1..n |-> 0]
                /\ nnPc' = IF 0 < nnIn.maxIter THEN "loop" ELSE "after"
                /\ UNCHANGED nnOut
    /\ UNCHANGED <<nnIn, nnIter, tgtVars, valVars, mbVars, aiVars, gpVars, mcVars, pdVars, laterVars>>

\* One iteration of the outer loop: a sweep over all coordinates, then the
\* convergence test and the loop header.
NnlsSweep ==
    /\ nnPc = "loop"
    /\ LET r == SweepFrom(nnIn.A, nnIn.b, nnX, 0, 1)
       IN  /\ nnX' = r.x
           /\ nnIter' = nnIter + 1
           /\ nnPc' = IF r.maxChange < 1 \/ nnIter + 1 >= nnIn.maxIter
                      THEN "after" ELSE "loop"
    /\ UNCHANGED <<nnIn, nnOut, tgtVars, valVars, mbVars, aiVars, gpVars, mcVars, pdVars, laterVars>>

RECURSIVE SeqSum(_)
SeqSum(x) == IF x = << >> THEN 0 ELSE Head(x) + SeqSum(Tail(x))

\* Lines 1926-1928.
NnlsReturn ==
    /\ nnPc = "after"
    /\ nnOut' = IF SeqSum(nnX) <= 0 THEN [status |-> "null"]
                ELSE [status |-> "array", x |-> nnX]
    /\ nnPc' = "done"
    /\ UNCHANGED <<nnIn, nnX, nnIter, tgtVars, valVars, mbVars, aiVars, gpVars, mcVars, pdVars, laterVars>>

NnIdle ==
    /\ nnIn = NoCall /\ nnX = << >> /\ nnIter = 0 /\ nnPc = "idle" /\ nnOut = NoCall

(***************************************************************************)
(* googleAiService: macroCorrectionLoop(meals, selectedFoods, targets,     *)
(* options)                                                                *)
(* Totals of the macros are not rounded in the code: they are kept in      *)
(* units of 1e-4 g (tenths per 100 g times tenths of a gram).  Deficits    *)
(* are rounded to a tenth of a gram; the calorie deficit is in tenths.     *)
(***************************************************************************)

\* PURE_MACRO_CANDIDATES, in the order of the table.
PURE_MACRO_CANDIDATES ==
    << [name |-> "whey protein, isolate",    macro |-> "protein"],
       [name |-> "egg, white, raw",          macro |-> "protein"],
       [name |-> "chicken breast, skinless", macro |-> "protein"],
       [name |-> "brown rice, cooked",       macro |-> "carbs"],
       [name |-> "oats, rolled",             macro |-> "carbs"],
       [name |-> "banana, raw",              macro |-> "carbs"],
       [name |-> "olive oil",                macro |-> "fat"],
       [name |-> "avocado, raw",             macro |-> "fat"],
       [name |-> "butter",                   macro |-> "fat"] >>

\* FALLBACK_PROFILES: calories per 100 g and tenths of a gram per 100 g.
FALLBACK_PROFILES ==
    [ n \in { PURE_MACRO_CANDIDATES[i].name : i \in 1..Len(PURE_MACRO_CANDIDATES) } |->
        CASE n = "whey protein, isolate"    -> Profile(400, 800, 80, 20)
          [] n = "egg, white, raw"          -> Profile(52, 110, 7, 2)
          [] n = "chicken breast, skinless" -> Profile(165, 310, 0, 36)
          [] n = "brown rice, cooked"       -> Profile(123, 27, 256, 10)
          [] n = "oats, rolled"             -> Profile(389, 169, 663, 69)
          [] n = "banana, raw"              -> Profile(89, 11, 228, 3)
          [] n = "olive oil"                -> Profile(884, 0, 0, 1000)
          [] n = "avocado, raw"             -> Profile(160, 20, 90, 150)
          [] OTHER                          -> Profile(717, 9, 1, 810) ]

\* fetchAndCacheProfile(name) for a candidate: the cache holds only what
\* this function stored, and every candidate has a fallback profile, so the
\* cached and the fallback profile are the same and no search is made.
fetchAndCacheProfile(name) == FALLBACK_PROFILES[name]

\* `options.x || dflt`: a missing option is 0 here.
OrDefault(x, dflt) == IF x = 0 THEN dflt ELSE x

\* options.maxCandidates || 3
DefaultMaxCandidates == 3
\* options.maxCorrectionCalories || 800
DefaultMaxCorrectionCalories == 800
\* nnlsSolve(A, b, maxIter = 500)
DefaultMaxIter == 500

\* The totals loop over a flat list of portions: calories are rounded per
\* portion, the macros are summed unrounded (1e-4 g).
RECURSIVE McTotals(_, _)
McTotals(foods, selectedFoods) ==
    IF foods = << >>
    THEN [calories |-> 0, protein4 |-> 0, carbs4 |-> 0, fat4 |-> 0]
    ELSE LET food == Head(foods)
             rest == McTotals(Tail(foods), selectedFoods)
         IN  IF food.id \notin DOMAIN selectedFoods \/ food.quantity10 = 0
             THEN rest
             ELSE LET sf == selectedFoods[food.id]
                  IN  [ calories |-> rest.calories + PortionAmount(sf.calories_per_100g, food.quantity10),
                        protein4 |-> rest.protein4 + sf.protein10 * food.quantity10,
                        carbs4   |-> rest.carbs4 + sf.carbs10 * food.quantity10,
                        fat4     |-> rest.fat4 + sf.fat10 * food.quantity10 ]

\* Math.round((target - total) * 10) / 10, in tenths of a gram.
RoundedDeficit10(target10, total4) == Round(target10 * 1000 - total4, 1000)

\* const deficit = {...}
McDeficit(meals, selectedFoods, targets) ==
    LET t == McTotals(FlattenFoods(meals), selectedFoods)
    IN  [ calories10 |-> targets.calories10 - 10 * t.calories,
          protein10  |-> RoundedDeficit10(targets.protein10, t.protein4),
          carbs10    |-> RoundedDeficit10(targets.carbs10, t.carbs4),
          fat10      |-> RoundedDeficit10(targets.fat10, t.fat4) ]

\* Mutant of the need test: any positive deficit counts.
NeedsMacro_AnyDeficit(deficit10) == deficit10 > 0

\* needProtein = deficit.protein > 1, and the same for carbs and fat
NeedsMacro(deficit10) == deficit10 > 10

\* The condition of the first return: 'within tolerance'.
WithinTolerance(deficit) ==
    /\ ~NeedsMacro(deficit.protein10)
    /\ ~NeedsMacro(deficit.carbs10)
    /\ ~NeedsMacro(deficit.fat10)
    /\ Abs(deficit.calories10) <= 500

\* The filter of PURE_MACRO_CANDIDATES over the first k entries.
RECURSIVE FilterCandidates(_, _)
FilterCandidates(deficit, k) ==
    IF k = 0 THEN << >>
    ELSE LET c == PURE_MACRO_CANDIDATES[k]
             keep == \/ c.macro = "protein" /\ NeedsMacro(deficit.protein10)
                     \/ c.macro = "carbs" /\ NeedsMacro(deficit.carbs10)
                     \/ c.macro = "fat" /\ NeedsMacro(deficit.fat10)
         IN  FilterCandidates(deficit, k - 1) \o (IF keep THEN << c >> ELSE << >>)

\* picked = candidates.slice(0, options.maxCandidates || 3), then the
\* profiles of the picked candidates: [name, profile].
PickedProfiles(deficit, options) ==
    LET candidates == FilterCandidates(deficit, Len(PURE_MACRO_CANDIDATES))
        count == Min(Len(candidates), OrDefault(options.maxCandidates, DefaultMaxCandidates))
    IN  [ i \in 1..count |->
            [name |-> candidates[i].name, profile |-> fetchAndCacheProfile(candidates[i].name)] ]

\* A: rows protein, carbs, fat of profile / 100 (thousandths per gram).
CorrectionMatrix(profiles) ==
    MatrixOf([ i \in 1..Len(profiles) |->
                 << profiles[i].profile.protein10, profiles[i].profile.carbs10,
                    profiles[i].profile.fat10 >> ])

\* B: the three macro deficits (thousandths of a gram).
CorrectionTarget(deficit) ==
    << 100 * deficit.protein10, 100 * deficit.carbs10, 100 * deficit.fat10 >>

\* The loop over the solution from index i on: grams = max(0, round(x)),
\* kept when positive.
RECURSIVE SolutionFoods(_, _, _)
SolutionFoods(profiles, x, i) ==
    IF i > Len(x) THEN << >>
    ELSE LET grams == Max(0, Round(x[i], XScale))
         IN  (IF grams > 0
              THEN << [name |-> profiles[i].name, grams |-> grams, profile |-> profiles[i].profile] >>
              ELSE << >>) \o SolutionFoods(profiles, x, i + 1)

\* The per-100 g amount of a macro in a profile.
MacroOf(profile, macro) ==
    CASE macro = "protein" -> profile.protein10
      [] macro = "carbs"   -> profile.carbs10
      [] OTHER             -> profile.fat10

\* profiles.reduce((a, b) => b[macro] > a[macro] ? b : a) over the first k.
RECURSIVE BestProfile(_, _, _)
BestProfile(profiles, macro, k) ==
    IF k = 1 THEN profiles[1]
    ELSE LET a == BestProfile(profiles, macro, k - 1)
             b == profiles[k]
         IN  IF MacroOf(b.profile, macro) > MacroOf(a.profile, macro) THEN b ELSE a

\* Math.round(x / 0) for a positive x: Infinity, larger than any quantity.
Infinity == 1000000000

\* One branch of the greedy fallback for a needed macro.
GreedyFood(profiles, macro, deficit10) ==
    LET best == BestProfile(profiles, macro, Len(profiles))
        per100 == MacroOf(best.profile, macro)
        grams == IF per100 = 0 THEN Infinity ELSE Max(0, Round(100 * deficit10, per100))
    IN  IF grams > 0
        THEN << [name |-> best.name, grams |-> grams, profile |-> best.profile] >>
        ELSE << >>

\* The greedy fallback: protein, carbs, fat, each when needed.
GreedyFoods(profiles, deficit) ==
    (IF NeedsMacro(deficit.protein10) THEN GreedyFood(profiles, "protein", deficit.protein10) ELSE << >>)
    \o (IF NeedsMacro(deficit.carbs10) THEN GreedyFood(profiles, "carbs", deficit.carbs10) ELSE << >>)
    \o (IF NeedsMacro(deficit.fat10) THEN GreedyFood(profiles, "fat", deficit.fat10) ELSE << >>)

\* correctionFoods before the cap, from the return value of nnlsSolve.
CorrectionFoods(profiles, deficit, solution) ==
    LET fromSolution ==
            IF solution.status = "array" /\ Len(solution.x) = Len(profiles)
            THEN SolutionFoods(profiles, solution.x, 1) ELSE << >>
    IN  IF fromSolution # << >> THEN fromSolution ELSE GreedyFoods(profiles, deficit)

\* correctionCalories: the sum of Math.round(calories_per_100g * grams / 100).
RECURSIVE CorrectionCalories(_)
CorrectionCalories(foods) ==
    IF foods = << >> THEN 0
    ELSE Round(Head(foods).profile.calories_per_100g * Head(foods).grams, 100)
           + CorrectionCalories(Tail(foods))

\* cf.grams = Math.max(1, Math.round(cf.grams * scale)) with
\* scale = maxCorrectionCalories / correctionCalories
ScaledGrams(grams, maxCorrectionCalories, correctionCalories) ==
    Max(1, Round(grams * maxCorrectionCalories, correctionCalories))

\* The cap of the correction calories.
CapCorrection(foods, options) ==
    LET maxCorrectionCalories == OrDefault(options.maxCorrectionCalories, DefaultMaxCorrectionCalories)
        correctionCalories == CorrectionCalories(foods)
    IN  IF correctionCalories > maxCorrectionCalories
        THEN [ i \in 1..Len(foods) |->
                 [foods[i] EXCEPT !.grams = ScaledGrams(@, maxCorrectionCalories, correctionCalories)] ]
        ELSE foods

\* The pseudo ids of the correction foods: fresh, one per food.
CorrectionIds == << "correction-food-1", "correction-food-2", "correction-food-3" >>

\* correctionMeal: one portion in grams per correction food.
CorrectionMeal(foods) ==
    [ name  |-> "Macro correction",
      foods |-> [ i \in 1..Len(foods) |-> Portion(CorrectionIds[i], 10 * foods[i].grams, FALSE) ] ]

\* Mutant of the append: the correction meal replaces the plan.
AppendCorrectionMeal_Replace(meals, foods) == << CorrectionMeal(foods) >>

\* meals.push(correctionMeal)
AppendCorrectionMeal(meals, foods) == Append(meals, CorrectionMeal(foods))

\* selectedFoods[pseudoId] = foodEntry, for every correction food
AddCorrectionFoods(selectedFoods, foods) ==
    [ id \in DOMAIN selectedFoods \cup { CorrectionIds[i] : i \in 1..Len(foods) } |->
        IF \E i \in 1..Len(foods) : CorrectionIds[i] = id
        THEN foods[CHOOSE i \in 1..Len(foods) : CorrectionIds[i] = id].profile
        ELSE selectedFoods[id] ]

\* Mutant of the returns without a correction: an empty meal is pushed.
McUnchanged_EmptyMealPushed(in, reason) ==
    [ status |-> "result", meals |-> Append(in.meals, [name |-> "Macro correction", foods |-> << >>]),
      selectedFoods |-> in.selectedFoods, correctionMealAdded |-> FALSE, reason |-> reason,
      correctionFoods |-> << >>, computedFoods |-> << >> ]

\* The object returned without a correction meal.
McUnchanged(in, reason) ==
    [ status |-> "result", meals |-> in.meals, selectedFoods |-> in.selectedFoods,
      correctionMealAdded |-> FALSE, reason |-> reason,
      correctionFoods |-> << >>, computedFoods |-> << >> ]

\* Sessions of the correction loop: 2600 kcal at 40/35/25 and 3000 kcal at
\* 10/50/40 (a fat target above 110 g).
McSessionSet ==
    { in \in ValidSessions :
        \/ /\ in.targetCalories10 = 30000 /\ in.deficitSurplus10 = -4000
           /\ <<in.proteinPercent10, in.carbsPercent10, in.fatPercent10>> = <<400, 350, 250>>
        \/ /\ in.targetCalories10 = 30000 /\ in.deficitSurplus10 = 0
           /\ <<in.proteinPercent10, in.carbsPercent10, in.fatPercent10>> = <<100, 500, 400>> }

\* Plans around the targets: shortfalls in tenths of a gram, extra grams
\* of the calories-only food, and a snack of rolled oats (tenths of a gram).
McShapes ==
    [ dProtein : {0, -5, -10, -20, -100, -300}, dCarbs : {0, -100}, dFat : {0, -1100},
      extra : {0, 600, 1500}, oats10 : {0, 57} ]

McPlanOf(tg, sh) ==
    PlanOf(tg, [dProtein |-> sh.dProtein, dCarbs |-> sh.dCarbs, dFat |-> sh.dFat,
                extra |-> sh.extra, alt |-> FALSE])
    \o (IF sh.oats10 > 0
        THEN << [name |-> "Snack", foods |-> << Portion("alt", sh.oats10, FALSE) >>] >>
        ELSE << >>)

\* The options: none given, and one candidate with a ceiling of 200 kcal.
McOptionSet ==
    { [maxCandidates |-> 0, maxCorrectionCalories |-> 0],
      [maxCandidates |-> 1, maxCorrectionCalories |-> 200] }

McTargetsOf(in) ==
    [ calories10 |-> AdjustedOf(in), protein10 |-> TargetsOf(in).proteinGrams10,
      carbs10 |-> TargetsOf(in).carbsGrams10, fat10 |-> TargetsOf(in).fatGrams10 ]

McInit ==
    /\ \E in \in McSessionSet :
         \E sh \in { s \in McShapes : /\ TargetsOf(in).proteinGrams10 + s.dProtein >= 0
                                      /\ TargetsOf(in).carbsGrams10 + s.dCarbs >= 0
                                      /\ TargetsOf(in).fatGrams10 + s.dFat >= 0 } :
            \E op \in McOptionSet :
               mcIn = [ status |-> "in", session |-> in, shape |-> sh,
                        meals |-> McPlanOf(TargetsOf(in), sh), selectedFoods |-> PlanFoods,
                        targets |-> McTargetsOf(in), options |-> op ]
    /\ mcPc = "start"
    /\ mcOut = NoCall

\* Lines 1964-2034: totals, deficit, the two early returns, and the call of
\* nnlsSolve(A, B) with the default maxIter.
McStart ==
    /\ mcPc = "start"
    /\ LET deficit == McDeficit(mcIn.meals, mcIn.selectedFoods, mcIn.targets)
           profiles == PickedProfiles(deficit, mcIn.options)
       IN  IF WithinTolerance(deficit)
           THEN /\ mcOut' = McUnchanged(mcIn, "within tolerance")
                /\ mcPc' = "done"
                /\ UNCHANGED nnVars
           ELSE IF Len(profiles) = 0
           THEN /\ mcOut' = McUnchanged(mcIn, "no profiles")
                /\ mcPc' = "done"
                /\ UNCHANGED nnVars
           ELSE /\ nnIn' = [ A |-> CorrectionMatrix(profiles), b |-> CorrectionTarget(deficit),
                             maxIter |-> DefaultMaxIter ]
                /\ nnX' = << >>
                /\ nnIter' = 0
                /\ nnPc' = "start"
                /\ nnOut' = NoCall
                /\ mcPc' = "solve"
                /\ UNCHANGED mcOut
    /\ UNCHANGED <<mcIn, tgtVars, valVars, mbVars, aiVars, gpVars, pdVars, laterVars>>

\* Lines 2039-2102: the correction foods from the solution or the greedy
\* fallback, the cap, and the appended meal.
McFinish ==
    /\ mcPc = "solve"
    /\ nnPc = "done"
    /\ LET deficit == McDeficit(mcIn.meals, mcIn.selectedFoods, mcIn.targets)
           profiles == PickedProfiles(deficit, mcIn.options)
           computed == CorrectionFoods(profiles, deficit, nnOut)
           capped == CapCorrection(computed, mcIn.options)
       IN  mcOut' = IF computed = << >>
                    THEN McUnchanged(mcIn, "no correction needed or unable to compute")
                    ELSE [ status |-> "result",
                           meals |-> AppendCorrectionMeal(mcIn.meals, capped),
                           selectedFoods |-> AddCorrectionFoods(mcIn.selectedFoods, capped),
                           correctionMealAdded |-> TRUE, reason |-> "added",
                           correctionFoods |-> capped, computedFoods |-> computed ]
    /\ mcPc' = "done"
    /\ UNCHANGED <<mcIn, nnVars, tgtVars, valVars, mbVars, aiVars, gpVars, pdVars, laterVars>>

McIdle == mcIn = NoCall /\ mcPc = "idle" /\ mcOut = NoCall

(***************************************************************************)
(* googleAiService: processDietPlanResponse(text, clientData,              *)
(* allowedPreferences, strictMode)                                         *)
(* The parsed response is a sequence of meals [name, foods], each food     *)
(* [name, quantity10]; a food's lookup is one step of the loop.            *)
(***************************************************************************)

\* The foods the two lookup services know, with their profile.
NutritionixFoods == { "chicken breast", "brown rice" }
FatSecretFoods   == { "brown rice", "oats" }

\* searchFoods(name).length > 0 || searchFatSecretFoods(name).length > 0
LookupFinds(name) == name \in NutritionixFoods \cup FatSecretFoods

\* getDetailedFoodInfo / getDetailedFatSecretFoodInfo of the first result
LookupProfile(name) ==
    CASE name = "chicken breast" -> Profile(165, 310, 0, 36)
      [] name = "brown rice"     -> Profile(123, 27, 256, 10)
      [] OTHER                   -> Profile(389, 169, 663, 69)

\* prefList: the preference names, or null (here << >>) when none is given
PrefList(allowedPreferences) == allowedPreferences

\* attemptNames: the preferences only in strict mode, else the proposed
\* name followed by the preferences not yet in the list.
AttemptNames(aiFood, prefList, strictMode) ==
    IF strictMode THEN prefList
    ELSE << aiFood.name >> \o SelectSeq(prefList, LAMBDA p : p # aiFood.name)

\* The first attempted name with a lookup result, or "" when there is none.
RECURSIVE FirstMatch(_)
FirstMatch(names) ==
    IF names = << >> THEN ""
    ELSE IF LookupFinds(Head(names)) THEN Head(names) ELSE FirstMatch(Tail(names))

\* The ids the function makes up (`ai-food-${Date.now()}-${Math.random()}`
\* and `ai-food-missing-...`): one per position in the response.
FoodEntryIds ==
    << << "ai-food-1-1", "ai-food-1-2", "ai-food-1-3" >>,
       << "ai-food-2-1", "ai-food-2-2", "ai-food-2-3" >>,
       << "ai-food-3-1", "ai-food-3-2", "ai-food-3-3" >> >>
PlaceholderIds ==
    << << "ai-food-missing-1-1", "ai-food-missing-1-2", "ai-food-missing-1-3" >>,
       << "ai-food-missing-2-1", "ai-food-missing-2-2", "ai-food-missing-2-3" >>,
       << "ai-food-missing-3-1", "ai-food-missing-3-2", "ai-food-missing-3-3" >> >>
FoodEntryId(m, f) == FoodEntryIds[m][f]
PlaceholderId(m, f) == PlaceholderIds[m][f]

\* aiFood.quantity || 100
QuantityOrDefault(quantity10) == IF quantity10 = 0 THEN 1000 ELSE quantity10

\* The body of the loop for one proposed food: "abort" (return null),
\* "found" with the name that matched, or "placeholder".
ResolveFood(aiFood, prefList, strictMode) ==
    IF strictMode /\ prefList = << >> THEN [kind |-> "abort", name |-> ""]
    ELSE LET match == FirstMatch(AttemptNames(aiFood, prefList, strictMode))
         IN  IF match # "" THEN [kind |-> "found", name |-> match]
             ELSE IF prefList # << >> THEN [kind |-> "abort", name |-> ""]
             ELSE [kind |-> "placeholder", name |-> ""]

\* Bounds of the response: meals per response and foods per meal.
MaxResponseMeals == 2
MaxMealItems == 2

ProposedFoodSet ==
    [ name : {"chicken breast", "brown rice", "dragon fruit jelly"}, quantity10 : {0, 1500} ]

ProposedMealSet ==
    { [name |-> "Meal", foods |-> fs] :
        fs \in UNION { [1..n -> ProposedFoodSet] : n \in 1..MaxMealItems } }

\* Preference lists: none, one the lookup finds, one it does not find.
PreferenceSet == { << >>, << "oats" >>, << "unicorn fillet" >> }

PdInit ==
    /\ \E n \in 1..MaxResponseMeals : \E ms \in [1..n -> ProposedMealSet] :
         \E prefs \in PreferenceSet : \E strict \in BOOLEAN : \E parsed \in BOOLEAN :
            /\ parsed \/ (n = 1 /\ ms[1].foods = << [name |-> "brown rice", quantity10 |-> 0] >>)
            /\ \A i \in 2..n : Len(ms[i].foods) = 1
            /\ pdIn = [ status |-> "in", parsed |-> parsed, meals |-> ms,
                        allowedPreferences |-> prefs, strictMode |-> strict ]
    /\ pdPc = "start"
    /\ pdPos = [meal |-> 1, food |-> 1]
    /\ pdMeals = << >>
    /\ pdFoods = << >>
    /\ pdSelected = << >>
    /\ pdOut = NoCall

\* sanitizeAndParseJSON returned null: return null.
ProcessEnter ==
    /\ pdPc = "start"
    /\ IF pdIn.parsed
       THEN pdPc' = "loop" /\ UNCHANGED pdOut
       ELSE pdPc' = "done" /\ pdOut' = [status |-> "null"]
    /\ UNCHANGED <<pdIn, pdPos, pdMeals, pdFoods, pdSelected,
                   tgtVars, valVars, mbVars, nnVars, aiVars, gpVars, mcVars, laterVars>>

\* The existing selectedFoods entry with the same name, or "".
ExistingId(selected, name) ==
    IF \E id \in DOMAIN selected : selected[id].name_en = name
    THEN CHOOSE id \in DOMAIN selected : selected[id].name_en = name
    ELSE ""

\* The body of the inner loop for the food at pdPos.
ProcessFood ==
    /\ pdPc = "loop"
    /\ pdPos.meal <= Len(pdIn.meals)
    /\ pdPos.food <= Len(pdIn.meals[pdPos.meal].foods)
    /\ LET aiFood == pdIn.meals[pdPos.meal].foods[pdPos.food]
           r == ResolveFood(aiFood, PrefList(pdIn.allowedPreferences), pdIn.strictMode)
           existingId == ExistingId(pdSelected, r.name)
           foodEntryId == IF existingId # "" THEN existingId
                          ELSE FoodEntryId(pdPos.meal, pdPos.food)
       IN  CASE r.kind = "abort" ->
                  /\ pdOut' = [status |-> "null"]
                  /\ pdPc' = "done"
                  /\ UNCHANGED <<pdPos, pdFoods, pdSelected>>
             [] r.kind = "found" ->
                  /\ pdFoods' = Append(pdFoods, Portion(foodEntryId, QuantityOrDefault(aiFood.quantity10), FALSE))
                  /\ pdSelected' =
                       IF existingId # "" THEN pdSelected
                       ELSE [ id \in DOMAIN pdSelected \cup {foodEntryId} |->
                                IF id = foodEntryId
                                THEN [ name_en |-> r.name,
                                       calories_per_100g |-> LookupProfile(r.name).calories_per_100g,
                                       protein10 |-> LookupProfile(r.name).protein10,
                                       carbs10 |-> LookupProfile(r.name).carbs10,
                                       fat10 |-> LookupProfile(r.name).fat10 ]
                                ELSE pdSelected[id] ]
                  /\ pdPos' = [pdPos EXCEPT !.food = @ + 1]
                  /\ UNCHANGED <<pdOut, pdPc>>
             [] OTHER ->
                  /\ pdFoods' = Append(pdFoods, Portion(PlaceholderId(pdPos.meal, pdPos.food),
                                                        QuantityOrDefault(aiFood.quantity10), FALSE))
                  /\ pdPos' = [pdPos EXCEPT !.food = @ + 1]
                  /\ UNCHANGED <<pdOut, pdPc, pdSelected>>
    /\ UNCHANGED <<pdIn, pdMeals, tgtVars, valVars, mbVars, nnVars, aiVars, gpVars, mcVars, laterVars>>

\* The end of the outer loop body: if (meal.foods.length > 0) meals.push(meal)
ProcessMealEnd ==
    /\ pdPc = "loop"
    /\ pdPos.meal <= Len(pdIn.meals)
    /\ pdPos.food > Len(pdIn.meals[pdPos.meal].foods)
    /\ pdMeals' = IF pdFoods # << >>
                  THEN Append(pdMeals, [name |-> pdIn.meals[pdPos.meal].name, foods |-> pdFoods])
                  ELSE pdMeals
    /\ pdFoods' = << >>
    /\ pdPos' = [meal |-> pdPos.meal + 1, food |-> 1]
    /\ UNCHANGED <<pdIn, pdPc, pdSelected, pdOut,
                   tgtVars, valVars, mbVars, nnVars, aiVars, gpVars, mcVars, laterVars>>

\* return { meals, selectedFoods, notes, reasoning }
ProcessReturn ==
    /\ pdPc = "loop"
    /\ pdPos.meal > Len(pdIn.meals)
    /\ pdOut' = [status |-> "plan", meals |-> pdMeals, selectedFoods |-> pdSelected]
    /\ pdPc' = "done"
    /\ UNCHANGED <<pdIn, pdPos, pdMeals, pdFoods, pdSelected,
                   tgtVars, valVars, mbVars, nnVars, aiVars, gpVars, mcVars, laterVars>>

PdIdle ==
    /\ pdIn = NoCall /\ pdPc = "idle" /\ pdPos = [meal |-> 1, food |-> 1]
    /\ pdMeals = << >> /\ pdFoods = << >> /\ pdSelected = << >> /\ pdOut = NoCall

(***************************************************************************)
(* googleAiService: availability, quota backoff and generateDietPlan       *)
(***************************************************************************)

\* const maxAttempts = 10
maxAttempts == 10

\* isQuotaBlocked(): Date.now() < (quotaBackoffUntil || 0)
isQuotaBlocked == now < quotaBackoffUntil

\* Mutant of isAIAvailable: the quota backoff is not looked at.
isAIAvailable_IgnoreBackoff == genAI

\* isAIAvailable()
isAIAvailable == IF isQuotaBlocked THEN FALSE ELSE genAI

\* setBackoffFromError(err): the delay parsed from the error text, 60 s when
\* the text names none, and never less than 10 s.
BackoffSeconds(err) ==
    LET seconds == IF err.hasRetryDelay THEN err.retryDelay ELSE 60
    IN  Max(10, seconds)

\* Quota errors of the proposer: with "retryDelay":"5s", and without a delay.
QuotaErrorSet == { [hasRetryDelay |-> TRUE, retryDelay |-> 5],
                   [hasRetryDelay |-> FALSE, retryDelay |-> 0] }

\* Bounds of the orchestrator model: the latest clock value (seconds) and the
\* number of generateDietPlan calls made one after the other.
MaxClock == 20
MaxCalls == 2

\* The arguments of the modelled calls: the README session, a second valid
\* one, and two whose percentages do not sum to 100.
GpSessionSet ==
    { in \in SessionInputs :
        \/ /\ in.targetCalories10 = 30000 /\ in.deficitSurplus10 = -4000
           /\ <<in.proteinPercent10, in.carbsPercent10, in.fatPercent10>>
                \in { <<400, 350, 250>>, <<400, 400, 300>> }
        \/ /\ in.targetCalories10 = 20000 /\ in.deficitSurplus10 = 0
           /\ <<in.proteinPercent10, in.carbsPercent10, in.fatPercent10>>
                \in { <<333, 333, 334>>, <<333, 333, 330>> } }

\* The plans the proposer and the food lookup produce: on target, 15 g over
\* on protein (still tolerated) and 16 g over on protein.
PlanShape(dProtein) ==
    [ dProtein |-> dProtein, dCarbs |-> 0, dFat |-> 0, extra |-> 0, alt |-> FALSE ]
GpExact        == PlanShape(0)
GpProteinOff15 == PlanShape(150)
GpProteinOff16 == PlanShape(160)
GpPlanShapes   == { GpExact, GpProteinOff15, GpProteinOff16 }

\* What a helper call can end in without a plan.  In generateInitialDietPlan
\* the first generateContent call is outside the inner try, the second one
\* inside it; intelligentlyAdjustDietPlan makes one call.  Both helpers catch
\* every error and return null.
\*   "requestError": the first request fails (any error, quota included)
\*   "quotaError":   the last request fails with a quota error
\*   "malformed":    the response text does not parse to a plan
NoResultCauses == {"requestError", "quotaError", "malformed"}

\* generateContent calls made by the helper of the given attempt.
RequestsOf(att, cause) ==
    IF att = 1 /\ cause # "requestError" THEN 2 ELSE 1

\* The data a helper puts in its prompt: which helper, the attempt whose
\* validation the adjustments are computed from (0: none), the signed
\* differences target - actual, and the summarized attempts.
NoDiffs == [ calorieDiff10 |-> 0, proteinDiff10 |-> 0, carbsDiff10 |-> 0, fatDiff10 |-> 0 ]
NoRequest == [ helper |-> "none", basis |-> 0, diffs |-> NoDiffs, summarized |-> << >> ]

\* Mutant of the slice: the whole history is summarized.
RecentAttempts_All(prev) == prev

\* previousAttempts.slice(-3)
RecentAttempts(prev) == SubSeq(prev, Max(1, Len(prev) - 2), Len(prev))

\* previousSummary: attempt number and actual totals of the recent attempts.
PreviousSummary(prev) ==
    LET recent == RecentAttempts(prev)
    IN  [ i \in 1..Len(recent) |->
            [ attempt   |-> recent[i].attempt,
              calories  |-> recent[i].validation.actualTotals.calories,
              protein10 |-> recent[i].validation.actualTotals.protein10,
              carbs10   |-> recent[i].validation.actualTotals.carbs10,
              fat10     |-> recent[i].validation.actualTotals.fat10 ] ]

\* The validation intelligentlyAdjustDietPlan works from: that of the last
\* record, or, with an empty history, that of currentMeals (default [])
\* against the empty selectedFoods the orchestrator passes.
AdjustmentValidation(in, prev) ==
    IF prev # << >> THEN prev[Len(prev)].validation
    ELSE validateDietPlanSpecifications(
             << >>, << >>, AdjustedOf(in),
             TargetsOf(in).proteinGrams10, TargetsOf(in).carbsGrams10, TargetsOf(in).fatGrams10,
             in.proteinPercent10, in.carbsPercent10, in.fatPercent10)

\* calorieDiff, proteinDiff, carbsDiff, fatDiff
AdjustmentDiffs(in, validation) ==
    [ calorieDiff10 |-> AdjustedOf(in) - 10 * validation.actualTotals.calories,
      proteinDiff10 |-> TargetsOf(in).proteinGrams10 - validation.actualTotals.protein10,
      carbsDiff10   |-> TargetsOf(in).carbsGrams10 - validation.actualTotals.carbs10,
      fatDiff10     |-> TargetsOf(in).fatGrams10 - validation.actualTotals.fat10 ]

\* The helper of an attempt and its prompt data: generateInitialDietPlan at
\* attempt 1, intelligentlyAdjustDietPlan at every later attempt.
HelperRequest(att, in, prev) ==
    IF att = 1
    THEN [ helper |-> "initial", basis |-> 0, diffs |-> NoDiffs, summarized |-> << >> ]
    ELSE [ helper |-> "adjust",
           basis |-> IF prev # << >> THEN prev[Len(prev)].attempt ELSE 0,
           diffs |-> AdjustmentDiffs(in, AdjustmentValidation(in, prev)),
           summarized |-> PreviousSummary(prev) ]

NoLog ==
    [ calls |-> 0, available |-> FALSE, blocked |-> FALSE, attemptsDone |-> 0,
      requests |-> 0, request |-> NoRequest ]

GpInit ==
    /\ genAI = TRUE
    /\ quotaBackoffUntil = 0
    /\ now = 0
    /\ gpIn = NoCall
    /\ gpPc = "idle"
    /\ attempt = 0
    /\ previousAttempts = << >>
    /\ gpOut = NoCall
    /\ gpLog = NoLog

OtherVars == <<tgtVars, valVars, mbVars, nnVars, mcVars, pdVars, laterVars>>

\* Time passes.
Tick ==
    /\ now + 10 <= MaxClock
    /\ now' = now + 10
    /\ UNCHANGED <<genAI, quotaBackoffUntil, gpVars, OtherVars>>

\* setGoogleAICredentials(apiKey), from the credentials form while no plan
\* is being generated.
setGoogleAICredentials(apiKey) ==
    /\ gpPc = "idle"
    /\ genAI' = (apiKey # "")
    /\ UNCHANGED <<quotaBackoffUntil, now, gpVars, OtherVars>>

\* Mutant of the acceptance test: every plan is accepted.
AcceptsPlan_Always(validation) == TRUE

\* if (validation.isValid) return {...}
AcceptsPlan(validation) == validation.isValid

\* Mutant of the continue: a null result does not move to the next attempt.
AfterNoResult_SameAttempt(att) == att

\* continue, then attempt++ of the loop header
AfterNoResult(att) == att + 1

\* The error thrown after the loop (line 870).
AttemptsExhausted == [ status |-> "error", error |-> "AttemptsExhausted" ]
\* The error thrown by the percentage check (line 762).
InvalidMacroSpec  == [ status |-> "error", error |-> "InvalidMacroSpec" ]
NullResult        == [ status |-> "null" ]

\* Lines 741-782: the availability check, the percentage check, the targets.
generateDietPlan_Enter(in) ==
    /\ gpPc = "idle"
    /\ gpLog.calls < MaxCalls
    /\ gpIn' = in
    /\ previousAttempts' = << >>
    /\ gpLog' = [ calls |-> gpLog.calls + 1, available |-> isAIAvailable,
                  blocked |-> isQuotaBlocked, attemptsDone |-> 0, requests |-> 0,
                  request |-> NoRequest ]
    /\ IF ~isAIAvailable
       THEN gpOut' = NullResult /\ gpPc' = "idle" /\ attempt' = 0
       ELSE IF PercentSumInvalid(in.proteinPercent10, in.carbsPercent10, in.fatPercent10)
       THEN gpOut' = InvalidMacroSpec /\ gpPc' = "idle" /\ attempt' = 0
       ELSE gpOut' = NoCall /\ gpPc' = "attempt" /\ attempt' = 1
    /\ UNCHANGED <<aiVars, OtherVars>>

\* The end of a loop body that did not return: the next attempt, or the
\* throw after the loop.
LoopTo(next) ==
    IF next > maxAttempts
    THEN gpOut' = AttemptsExhausted /\ gpPc' = "idle" /\ attempt' = attempt
    ELSE gpOut' = gpOut /\ gpPc' = "attempt" /\ attempt' = next

\* One attempt whose helper returns null (lines 788-829).
AttemptNoResult(cause, err) ==
    /\ gpPc = "attempt"
    /\ gpLog' = [gpLog EXCEPT !.attemptsDone = @ + 1,
                              !.requests = @ + RequestsOf(attempt, cause),
                              !.request = HelperRequest(attempt, gpIn, previousAttempts)]
    /\ quotaBackoffUntil' =
         IF cause = "quotaError" /\ attempt = 1
         THEN now + BackoffSeconds(err) ELSE quotaBackoffUntil
    /\ LoopTo(AfterNoResult(attempt))
    /\ UNCHANGED <<genAI, now, gpIn, previousAttempts, OtherVars>>

\* One attempt whose helper returns a plan (lines 788-860).
AttemptPlan(shape) ==
    /\ gpPc = "attempt"
    /\ LET tg == TargetsOf(gpIn)
           result == [ meals |-> PlanOf(tg, shape), selectedFoods |-> PlanFoods ]
           validation ==
               validateDietPlanSpecifications(
                   result.meals, result.selectedFoods, AdjustedOf(gpIn),
                   tg.proteinGrams10, tg.carbsGrams10, tg.fatGrams10,
                   gpIn.proteinPercent10, gpIn.carbsPercent10, gpIn.fatPercent10)
       IN  /\ previousAttempts' =
                Append(previousAttempts,
                       [attempt |-> attempt, result |-> result, validation |-> validation])
           /\ IF AcceptsPlan(validation)
              THEN /\ gpOut' = [ status |-> "plan", meals |-> result.meals,
                                 selectedFoods |-> result.selectedFoods ]
                   /\ gpPc' = "idle"
                   /\ attempt' = attempt
              ELSE LoopTo(attempt + 1)
    /\ gpLog' = [gpLog EXCEPT !.attemptsDone = @ + 1,
                              !.requests = @ + RequestsOf(attempt, "plan"),
                              !.request = HelperRequest(attempt, gpIn, previousAttempts)]
    /\ UNCHANGED <<aiVars, gpIn, OtherVars>>

ValIdle == valIn = NoCall /\ valOut = NoCall

SpecTargetsInit == TgtInit /\ ValIdle /\ MbIdle /\ NnIdle /\ GpInit /\ McIdle /\ PdIdle /\ LaterIdle
SpecTargetsNext == CallCalculateExactMacros
SpecTargets == SpecTargetsInit /\ [][SpecTargetsNext]_vars

\* round(proteinGrams*4) + round(carbsGrams*4) + round(fatGrams*9) of a result
RecomputedCalories(out) ==
    CaloriesFromGrams(out.proteinGrams10, 4) + CaloriesFromGrams(out.carbsGrams10, 4)
        + CaloriesFromGrams(out.fatGrams10, 9)

\* The README example: base 3000, adjustment -400, 40/35/25.
ReadmeExample ==
    [ targetCalories10 |-> 30000, deficitSurplus10 |-> -4000,
      proteinPercent10 |-> 400, carbsPercent10 |-> 350, fatPercent10 |-> 250 ]

SpecMealInit == MbInit /\ TgtIdle /\ ValIdle /\ NnIdle /\ GpInit /\ McIdle /\ PdIdle /\ LaterIdle
SpecMealNext ==
    \/ \E i \in 1..Len(mbFoods) : MarkAlternative(i)
    \/ \E i \in 1..Len(mbFoods) : AddDuplicate(i)
SpecMeal == SpecMealInit /\ [][SpecMealNext]_vars

\* The contribution of one portion: rounded calories and one-decimal macros
\* of profile * grams / 100, the grams being the converted quantity.
PortionContribution(foodEntry) ==
    IF foodEntry.id \in DOMAIN MbSelectedFoods /\ foodEntry.quantity10 # 0
    THEN LET food == MbSelectedFoods[foodEntry.id]
             grams10 == convertToGrams(foodEntry.quantity10, foodEntry.unit,
                                       food.servingInfo, food.altMeasures)
         IN  [ calories  |-> Round(food.profile.calories_per_100g * grams10, 1000),
               protein10 |-> Round(food.profile.protein10 * grams10, 1000),
               carbs10   |-> Round(food.profile.carbs10 * grams10, 1000),
               fat10     |-> Round(food.profile.fat10 * grams10, 1000) ]
    ELSE ZeroTotals

\* C8: re-marking an already excluded portion as alternative leaves the meal
\* totals as they were, and adding a non-alternative duplicate of an excluded
\* portion changes them by exactly that portion's contribution.
C8_AlternativeExclusionIdempotent ==
    /\ (mbLast.kind = "mark" /\ mbLast.excluded) => mbTotals = mbPrev
    /\ (mbLast.kind = "duplicate" /\ mbLast.excluded)
          => mbTotals = AddTotals(mbPrev, PortionContribution(mbLast.portion))

\* C8 witness: a non-alternative duplicate of an alternative portion given in
\* tablespoons has been added and the totals have grown by its contribution.
C8_Witness ==
    /\ mbLast.kind = "duplicate"
    /\ mbLast.portion.isAlternative
    /\ mbLast.portion.unit = "tbsp"
    /\ mbTotals # mbPrev
    /\ mbTotals = AddTotals(mbPrev, PortionContribution(mbLast.portion))

SpecNnlsInit == NnInit /\ TgtIdle /\ ValIdle /\ MbIdle /\ GpInit /\ McIdle /\ PdIdle /\ LaterIdle
SpecNnlsNext == NnlsEnter \/ NnlsSweep \/ NnlsReturn
SpecNnls == SpecNnlsInit /\ [][SpecNnlsNext]_vars

AllZero(x) == \A i \in 1..Len(x) : x[i] = 0

\* C9: every component of x is >= 0 after every sweep and in the returned
\* vector, and a computed solution that is all-zero is returned as null,
\* never as a vector.
C9_NonNegativeOrNull ==
    /\ \A i \in 1..Len(nnX) : nnX[i] >= 0
    /\ nnOut.status = "array" => \A i \in 1..Len(nnOut.x) : nnOut.x[i] >= 0
    /\ (nnPc = "done" /\ NnCols(nnIn.A) > 0 /\ AllZero(nnX)) => nnOut.status = "null"
    /\ (nnPc = "done" /\ NnCols(nnIn.A) > 0 /\ nnOut.status = "null") => AllZero(nnX)

\* C9 witness: a target with a negative component and a matrix with a
\* non-zero column, solved to a vector in which one gram amount was held at
\* zero and another is positive.
C9_Witness ==
    /\ nnPc = "done"
    /\ nnIter >= 2
    /\ \E k \in 1..3 : nnIn.b[k] < 0
    /\ nnOut.status = "array"
    /\ \E i, j \in 1..Len(nnOut.x) :
          /\ nnOut.x[i] = 0 /\ AtA(nnIn.A, i, i) > 0
          /\ nnOut.x[j] > 0

\* C10: with zero columns nnlsSolve returns at once with the failure signal
\* of the degenerate solution, null.
C10_EmptyReturnsNull ==
    (nnPc = "done" /\ NnCols(nnIn.A) = 0) => (nnOut.status = "null" /\ nnIter = 0)

Init == TgtIdle /\ ValIdle /\ MbIdle /\ NnIdle /\ GpInit /\ McIdle /\ PdIdle /\ LaterIdle
Next ==
    \/ Tick
    \/ \E apiKey \in {"", "key"} : setGoogleAICredentials(apiKey)
    \/ \E in \in GpSessionSet : generateDietPlan_Enter(in)
    \/ \E cause \in NoResultCauses, err \in QuotaErrorSet : AttemptNoResult(cause, err)
    \/ \E shape \in GpPlanShapes : AttemptPlan(shape)
Spec == Init /\ [][Next]_vars

\* The validation of the plan in meals against the targets of the call.
GpValidationOf(meals, selectedFoods) ==
    LET tg == TargetsOf(gpIn)
    IN  validateDietPlanSpecifications(
            meals, selectedFoods, AdjustedOf(gpIn),
            tg.proteinGrams10, tg.carbsGrams10, tg.fatGrams10,
            gpIn.proteinPercent10, gpIn.carbsPercent10, gpIn.fatPercent10)

LastAttempt == previousAttempts[Len(previousAttempts)]

\* C1: a returned plan is the plan validated in the attempt that returned
\* it and its validation reported isValid; every earlier attempt of the call
\* was invalid, and a validated-valid plan ends the call at once.
C1_OnlyValidatedPlanReturned ==
    /\ gpOut.status = "plan" =>
          /\ Len(previousAttempts) >= 1
          /\ LastAttempt.attempt = attempt
          /\ LastAttempt.result.meals = gpOut.meals
          /\ LastAttempt.result.selectedFoods = gpOut.selectedFoods
          /\ LastAttempt.validation.isValid
          /\ GpValidationOf(gpOut.meals, gpOut.selectedFoods).isValid
    /\ \A k \in 1..Len(previousAttempts) :
          previousAttempts[k].validation.isValid
            => (k = Len(previousAttempts) /\ gpOut.status = "plan" /\ gpPc = "idle")

\* C1 witness: an invalid plan at attempt 1, no result at attempt 2, and the
\* plan that is 15 g over on protein returned at attempt 3.
C1_Witness ==
    /\ gpOut.status = "plan"
    /\ attempt = 3
    /\ Len(previousAttempts) = 2
    /\ ~previousAttempts[1].validation.isValid
    /\ gpOut.meals = PlanOf(TargetsOf(gpIn), GpProteinOff15)

\* Every recorded attempt of the call proposed the plan 16 g over on protein.
AlwaysProteinOff16 ==
    /\ gpLog.attemptsDone >= 1
    /\ Len(previousAttempts) = gpLog.attemptsDone
    /\ \A k \in 1..Len(previousAttempts) :
          previousAttempts[k].result.meals = PlanOf(TargetsOf(gpIn), GpProteinOff16)

\* C2: a call performs at most 10 attempts and every attempt, with or
\* without a plan, consumes one; the error after the loop is thrown after
\* exactly 10; a proposer that is always 16 g over on protein runs the call
\* to attempt 10 and to that error, without a plan.
C2_AttemptBudget ==
    /\ gpLog.attemptsDone <= maxAttempts
    /\ attempt <= maxAttempts
    /\ gpPc = "attempt" => attempt = gpLog.attemptsDone + 1
    /\ gpOut = AttemptsExhausted => gpLog.attemptsDone = maxAttempts
    /\ (gpPc = "idle" /\ AlwaysProteinOff16) =>
          /\ gpOut = AttemptsExhausted
          /\ gpLog.attemptsDone = maxAttempts
          /\ \A k \in 1..maxAttempts : previousAttempts[k].attempt = k

\* C2 witness: ten plans 16 g over on protein, then the error.
C2_Witness ==
    /\ gpPc = "idle"
    /\ AlwaysProteinOff16
    /\ gpOut = AttemptsExhausted
    /\ \A k \in 1..Len(previousAttempts) :
          previousAttempts[k].validation.errors = << "PROTEIN" >>

\* The percentages of the call do not sum to 100 within 0.1.
GpPercentInvalid ==
    /\ gpLog.calls >= 1
    /\ Abs(gpIn.proteinPercent10 + gpIn.carbsPercent10 + gpIn.fatPercent10 - 1000) > 1

\* C4: a call with an invalid percentage sum fails with InvalidMacroSpec and
\* starts no attempt and makes no request, whatever the backoff state.
C4_InvalidSpecAlwaysThrows ==
    GpPercentInvalid =>
        /\ gpOut = InvalidMacroSpec
        /\ gpPc = "idle"
        /\ gpLog.attemptsDone = 0 /\ gpLog.requests = 0

\* C4 amended: a call with an invalid percentage sum starts no attempt and
\* makes no request; it fails with InvalidMacroSpec when the AI is available
\* at the call, and returns null when it is not (backoff window active or no
\* client configured).
C4_InvalidSpecNoAttempt ==
    GpPercentInvalid =>
        /\ gpPc = "idle"
        /\ gpLog.attemptsDone = 0 /\ gpLog.requests = 0
        /\ previousAttempts = << >>
        /\ gpLog.available => gpOut = InvalidMacroSpec
        /\ ~gpLog.available => gpOut = NullResult

\* C4 witness: the second call has an invalid percentage sum and throws,
\* after a first call that hit a quota error whose backoff has expired.
C4_Witness ==
    /\ GpPercentInvalid
    /\ gpLog.calls = 2
    /\ quotaBackoffUntil > 0 /\ now >= quotaBackoffUntil
    /\ gpOut = InvalidMacroSpec

SpecValidateInit == ValInit /\ TgtIdle /\ MbIdle /\ NnIdle /\ GpInit /\ McIdle /\ PdIdle /\ LaterIdle
SpecValidateNext == CallValidate
SpecValidate == SpecValidateInit /\ [][SpecValidateNext]_vars

\* The targets the validated plan was checked against.
ValTargets == TargetsOf(valIn.session)
ValTargetCalories10 == AdjustedOf(valIn.session)

\* The macro totals of the validated plan equal the gram targets.
MacrosMatch ==
    /\ valOut.actualTotals.protein10 = ValTargets.proteinGrams10
    /\ valOut.actualTotals.carbs10 = ValTargets.carbsGrams10
    /\ valOut.actualTotals.fat10 = ValTargets.fatGrams10

ZeroDeviation ==
    /\ valOut.status = "ok"
    /\ 10 * valOut.actualTotals.calories = ValTargetCalories10
    /\ MacrosMatch

CalorieDeviation151 ==
    /\ valOut.status = "ok"
    /\ Abs(10 * valOut.actualTotals.calories - ValTargetCalories10) = 1510
    /\ MacrosMatch

HasError(tag) == \E i \in 1..Len(valOut.errors) : valOut.errors[i] = tag

\* C5 (as claimed): a plan with zero deviation from the calorie and gram
\* targets always validates as isValid = TRUE, and a plan 151 kcal off with
\* matching macros validates as isValid = FALSE with the calorie error.
C5_ZeroDeviationValid ==
    /\ ZeroDeviation => valOut.isValid
    /\ CalorieDeviation151 => (~valOut.isValid /\ HasError("CALORIE"))

\* C5 (amended): the same for calorie targets of at least 100 kcal.
C5_ZeroDeviationValidFrom100Kcal ==
    /\ (ZeroDeviation /\ ValTargetCalories10 >= 1000) => valOut.isValid
    /\ CalorieDeviation151 => (~valOut.isValid /\ HasError("CALORIE"))

\* C5 witness: a zero-deviation plan for a target of at least 100 kcal has
\* been validated and accepted.
C5_Witness ==
    ZeroDeviation /\ ValTargetCalories10 >= 1000 /\ valOut.isValid

\* Percent of calories of a macro total, for a plan with calories.
PercentOfCalories(macro10, kcalPerGram) ==
    Round(macro10 * kcalPerGram * 10, valOut.actualTotals.calories)

\* The thresholds of the claim, evaluated on the totals the result reports.
ViolatedThresholds ==
    LET at == valOut.actualTotals
        in == valIn.session
    IN  (IF Abs(10 * at.calories - ValTargetCalories10) > 1500 THEN {"CALORIE"} ELSE {})
        \cup (IF Abs(at.protein10 - ValTargets.proteinGrams10) > 150 THEN {"PROTEIN"} ELSE {})
        \cup (IF Abs(at.carbs10 - ValTargets.carbsGrams10) > 150 THEN {"CARBS"} ELSE {})
        \cup (IF Abs(at.fat10 - ValTargets.fatGrams10) > 150 THEN {"FAT"} ELSE {})
        \cup (IF Abs(10 * PercentOfCalories(at.protein10, 4) - in.proteinPercent10) > 30
              THEN {"PROTEIN_PERCENT"} ELSE {})
        \cup (IF Abs(10 * PercentOfCalories(at.carbs10, 4) - in.carbsPercent10) > 30
              THEN {"CARBS_PERCENT"} ELSE {})
        \cup (IF Abs(10 * PercentOfCalories(at.fat10, 9) - in.fatPercent10) > 30
              THEN {"FAT_PERCENT"} ELSE {})

RECURSIVE NonAlternative(_)
NonAlternative(foods) ==
    IF foods = << >> THEN << >>
    ELSE (IF Head(foods).isAlternative THEN << >> ELSE << Head(foods) >>)
         \o NonAlternative(Tail(foods))

\* C7 (as claimed): the totals the validation engine compares against the
\* targets are summed over non-alternative portions only.
C7_AlternativesExcluded ==
    valOut.status = "ok" =>
        LET t == ValidateTotals(NonAlternative(FlattenFoods(valIn.meals)), valIn.selectedFoods)
        IN  /\ valOut.actualTotals.calories = t.calories
            /\ valOut.actualTotals.protein10 = t.protein10
            /\ valOut.actualTotals.carbs10 = t.carbs10
            /\ valOut.actualTotals.fat10 = t.fat10

(***************************************************************************)
(* Specification of one macroCorrectionLoop call, nnlsSolve included       *)
(***************************************************************************)

SpecCorrectionInit == McInit /\ NnIdle /\ TgtIdle /\ ValIdle /\ MbIdle /\ GpInit /\ PdIdle /\ LaterIdle
SpecCorrectionNext == McStart \/ NnlsEnter \/ NnlsSweep \/ NnlsReturn \/ McFinish
SpecCorrection == SpecCorrectionInit /\ [][SpecCorrectionNext]_vars

\* validateDietPlanSpecifications for the plan and targets of the call.
McValidationOf(in) ==
    validateDietPlanSpecifications(
        in.meals, in.selectedFoods, in.targets.calories10,
        in.targets.protein10, in.targets.carbs10, in.targets.fat10,
        in.session.proteinPercent10, in.session.carbsPercent10, in.session.fatPercent10)

McReturned == mcOut.status = "result"

\* The plan came back as it went in.
McPlanUnchanged ==
    /\ ~mcOut.correctionMealAdded
    /\ mcOut.meals = mcIn.meals
    /\ mcOut.selectedFoods = mcIn.selectedFoods

McInsideLoopTolerance ==
    LET d == McDeficit(mcIn.meals, mcIn.selectedFoods, mcIn.targets)
    IN  /\ d.protein10 <= 10 /\ d.carbs10 <= 10 /\ d.fat10 <= 10
        /\ d.calories10 >= -500 /\ d.calories10 <= 500

McShortByMoreThanOneGram ==
    LET t == McTotals(FlattenFoods(mcIn.meals), mcIn.selectedFoods)
    IN  \/ mcIn.targets.protein10 * 1000 - t.protein4 > 10000
        \/ mcIn.targets.carbs10 * 1000 - t.carbs4 > 10000
        \/ mcIn.targets.fat10 * 1000 - t.fat4 > 10000

\* The returned plan is the given plan followed by a meal 'Macro
\* correction' with at least one portion of positive quantity.
McCorrectionMealAppended ==
    /\ mcOut.correctionMealAdded
    /\ Len(mcOut.meals) = Len(mcIn.meals) + 1
    /\ SubSeq(mcOut.meals, 1, Len(mcIn.meals)) = mcIn.meals
    /\ LET last == mcOut.meals[Len(mcOut.meals)]
       IN  /\ last.name = "Macro correction"
           /\ \E i \in 1..Len(last.foods) : last.foods[i].quantity10 > 0

\* C12 as stated: whenever the plan is short on a macro by more than 1 g the
\* loop appends the meal 'Macro correction' behind the meals of the plan.
C12_ShortfallGetsCorrectionMeal ==
    (McReturned /\ McShortByMoreThanOneGram) => McCorrectionMealAppended

\* Some macro deficit, rounded to 0.1 g, is above 1 g.
McRoundedShortfall ==
    LET d == McDeficit(mcIn.meals, mcIn.selectedFoods, mcIn.targets)
    IN  d.protein10 > 10 \/ d.carbs10 > 10 \/ d.fat10 > 10

\* C12 amended: whenever the deficit of some macro, rounded to 0.1 g, is
\* above 1 g, the loop returns correctionMealAdded = true and a plan whose
\* last meal is 'Macro correction' with a portion of positive quantity, all
\* earlier meals still in place and in order ahead of it.
C12_RoundedShortfallGetsCorrectionMeal ==
    (McReturned /\ McRoundedShortfall) => McCorrectionMealAppended

\* A plan of two meals and a snack, 10 g short on protein, got its
\* correction meal.
C12_Witness ==
    /\ McReturned /\ McRoundedShortfall /\ McCorrectionMealAppended
    /\ Len(mcIn.meals) = 3
    /\ McDeficit(mcIn.meals, mcIn.selectedFoods, mcIn.targets).protein10 > 90

\* Sum over the portions of calories_per_100g * grams (hundredths of a kcal).
RECURSIVE MealCalories100(_)
MealCalories100(foods) ==
    IF foods = << >> THEN 0
    ELSE Head(foods).profile.calories_per_100g * Head(foods).grams + MealCalories100(Tail(foods))

\* C20: the calories of the appended correction meal, the sum of
\* calories_per_100g * grams / 100 over its portions, never exceed
\* maxCorrectionCalories (800 kcal by default).
C20_CorrectionWithinCeiling ==
    (McReturned /\ mcOut.correctionMealAdded) =>
        MealCalories100(mcOut.correctionFoods)
            <= 100 * OrDefault(mcIn.options.maxCorrectionCalories, DefaultMaxCorrectionCalories)

(***************************************************************************)
(* Specification of one processDietPlanResponse call                       *)
(***************************************************************************)

SpecProcessInit == PdInit /\ McIdle /\ NnIdle /\ TgtIdle /\ ValIdle /\ MbIdle /\ GpInit /\ LaterIdle
SpecProcessNext == ProcessEnter \/ ProcessFood \/ ProcessMealEnd \/ ProcessReturn
SpecProcess == SpecProcessInit /\ [][SpecProcessNext]_vars

\* The positions of the proposed foods in the response.
PdPositions ==
    { <<m, f>> \in (1..Len(pdIn.meals)) \X (1..MaxMealItems) : f <= Len(pdIn.meals[m].foods) }

\* No name tried for the food at <<m, f>> has a result in either lookup
\* service.
PdUnresolved(m, f) ==
    FirstMatch(AttemptNames(pdIn.meals[m].foods[f], PrefList(pdIn.allowedPreferences),
                            pdIn.strictMode)) = ""

\* The portions of a flat list without the ids in the given set.
RECURSIVE WithoutIds(_, _)
WithoutIds(foods, ids) ==
    IF foods = << >> THEN << >>
    ELSE (IF Head(foods).id \in ids THEN << >> ELSE << Head(foods) >>) \o WithoutIds(Tail(foods), ids)

\* The returned plan holds a placeholder portion for <<m, f>> that has no
\* selected food and adds nothing to the totals of the validation.
PdPlaceholderAt(m, f) ==
    /\ pdOut.status = "plan"
    /\ LET foods == FlattenFoods(pdOut.meals)
       IN  /\ \E i \in 1..Len(foods) : foods[i].id = PlaceholderId(m, f)
           /\ PlaceholderId(m, f) \notin DOMAIN pdOut.selectedFoods
           /\ ValidateTotals(foods, pdOut.selectedFoods)
                = ValidateTotals(WithoutIds(foods, {PlaceholderId(m, f)}), pdOut.selectedFoods)

\* C15: when a proposed food is resolved by neither lookup service, a call
\* in permissive mode (with or without a preference list) still returns a
\* plan holding a placeholder portion for it that adds nothing to the
\* totals, and a call in strict preference mode returns no plan.
C15_UnresolvedFoodHandling ==
    (pdPc = "done" /\ pdIn.parsed) =>
        \A pos \in PdPositions :
            PdUnresolved(pos[1], pos[2]) =>
                IF pdIn.strictMode THEN pdOut.status = "null"
                ELSE PdPlaceholderAt(pos[1], pos[2])

(***************************************************************************)
(* Quota backoff, attempt history and the helpers of generateDietPlan      *)
(***************************************************************************)

\* C13: once the quota backoff has been triggered no proposer request is
\* sent until the window has expired: a step that sends a request starts
\* outside the window.
C13_NoRequestInsideBackoff ==
    [][gpLog'.requests > gpLog.requests => ~isQuotaBlocked]_vars

\* C14: a planning call started while the backoff window is active ends at
\* once with the unavailable outcome (null): no attempt, no proposer
\* request, no record, and the backoff deadline is left as it was.
C14_BlockedSessionEndsAtOnce ==
    /\ [](gpLog.blocked =>
            /\ gpOut = NullResult /\ gpPc = "idle"
            /\ gpLog.attemptsDone = 0 /\ gpLog.requests = 0
            /\ previousAttempts = << >>)
    /\ [][(gpLog'.calls = gpLog.calls + 1 /\ isQuotaBlocked) =>
            /\ gpLog'.blocked /\ gpOut' = NullResult
            /\ quotaBackoffUntil' = quotaBackoffUntil]_vars

\* A second call, made with a client configured while the window set by a
\* quota error of the first call is still open, has returned null.
C14_Witness ==
    /\ gpLog.calls = 2 /\ gpLog.blocked /\ genAI
    /\ now < quotaBackoffUntil
    /\ gpOut = NullResult /\ gpLog.attemptsDone = 0 /\ gpLog.requests = 0

\* The window the payload of a quota error asks for, 60 s without one.
ParsedWindow(err) == IF err.hasRetryDelay THEN err.retryDelay ELSE 60

\* C16: whenever a proposer request of an attempt fails with a quota
\* signal, the backoff window is active right afterwards and lasts the
\* seconds parsed from the payload, or 60 s when there are none.
C16_QuotaFailureStartsWindow ==
    [][\A err \in QuotaErrorSet :
          AttemptNoResult("quotaError", err) =>
              quotaBackoffUntil' = now + ParsedWindow(err)]_vars

\* C17 as stated: after k attempts the history holds exactly k records.
C17_OneRecordPerAttempt ==
    Len(previousAttempts) = gpLog.attemptsDone

\* C17 amended: the history holds one record for each attempt that obtained
\* a plan and none for an attempt whose helper returned nothing: at most
\* one record per performed attempt, in increasing attempt order, each with
\* the plan of its attempt and the validation of that plan; the adjustment
\* request summarizes the most recent 3 records.
C17_RecordsOfAttemptsWithPlan ==
    /\ Len(previousAttempts) <= gpLog.attemptsDone
    /\ \A k \in 1..Len(previousAttempts) :
          /\ previousAttempts[k].attempt \in 1..gpLog.attemptsDone
          /\ k > 1 => previousAttempts[k - 1].attempt < previousAttempts[k].attempt
          /\ previousAttempts[k].validation
                = GpValidationOf(previousAttempts[k].result.meals,
                                 previousAttempts[k].result.selectedFoods)
    /\ (gpPc = "attempt" /\ attempt >= 2) =>
          LET summary == HelperRequest(attempt, gpIn, previousAttempts).summarized
              n == Len(previousAttempts)
          IN  /\ Len(summary) = Min(3, n)
              /\ \A i \in 1..Len(summary) :
                    /\ summary[i].attempt = previousAttempts[n - Len(summary) + i].attempt
                    /\ summary[i].calories
                         = previousAttempts[n - Len(summary) + i].validation.actualTotals.calories

\* Five attempts done, the second without a result: four records, and the
\* request of attempt 6 summarizes attempts 3, 4 and 5.
C17_Witness ==
    /\ gpPc = "attempt" /\ attempt = 6
    /\ Len(previousAttempts) = 4
    /\ [ k \in 1..4 |-> previousAttempts[k].attempt ] = << 1, 3, 4, 5 >>
    /\ [ i \in 1..3 |-> HelperRequest(attempt, gpIn, previousAttempts).summarized[i].attempt ]
         = << 3, 4, 5 >>

\* C18: an intelligent adjustment is requested only after a plan of an
\* earlier attempt of the call has been validated, with the deviations of
\* the most recent validated attempt; while no plan has been obtained the
\* call stays in initial generation.
C18_AdjustmentOnlyAfterValidatedPlan ==
    /\ gpLog.request.helper = "adjust" =>
          /\ gpLog.request.basis >= 1
          /\ \E k \in 1..Len(previousAttempts) :
                /\ previousAttempts[k].attempt = gpLog.request.basis
                /\ gpLog.request.diffs = AdjustmentDiffs(gpIn, previousAttempts[k].validation)
    /\ (gpPc = "attempt" /\ previousAttempts = << >>) => attempt = 1

\* C19: a plan that failed validation is corrected by the Portion
\* Correction Engine and validated again before the next attempt, and the
\* macro correction loop has run before a plan is handed back.
C19_CorrectionBeforeHandBack ==
    gpOut.status = "plan" => mcOut.status = "result"

(***************************************************************************)
(* macroCorrectionLoop: no-op case, validity of the result, candidates     *)
(***************************************************************************)

\* Every unrounded macro deficit is at most 1 g and the calories are within
\* 50 kcal of the target.
McDeficitsWithinOneGram ==
    LET t == McTotals(FlattenFoods(mcIn.meals), mcIn.selectedFoods)
    IN  /\ mcIn.targets.protein10 * 1000 - t.protein4 <= 10000
        /\ mcIn.targets.carbs10 * 1000 - t.carbs4 <= 10000
        /\ mcIn.targets.fat10 * 1000 - t.fat4 <= 10000
        /\ Abs(mcIn.targets.calories10 - 10 * t.calories) <= 500

\* C21: when every macro deficit is at most 1 g and the calorie deviation at
\* most 50 kcal the loop returns correctionMealAdded = false with meals and
\* selectedFoods unchanged; and whenever the flag is false no meal was
\* appended and no food entry added.
C21_NoOpLeavesPlanUnchanged ==
    McReturned =>
        /\ McDeficitsWithinOneGram => McPlanUnchanged
        /\ ~mcOut.correctionMealAdded =>
              (mcOut.meals = mcIn.meals /\ mcOut.selectedFoods = mcIn.selectedFoods)

\* A plan exactly 1 g short on protein came back unchanged, flag false.
C21_Witness ==
    /\ McReturned /\ McDeficitsWithinOneGram /\ McPlanUnchanged
    /\ McDeficit(mcIn.meals, mcIn.selectedFoods, mcIn.targets).protein10 = 10
    /\ mcOut.reason = "within tolerance"

\* validateDietPlanSpecifications for the returned plan and the same targets.
McValidationOfResult ==
    validateDietPlanSpecifications(
        mcOut.meals, mcOut.selectedFoods, mcIn.targets.calories10,
        mcIn.targets.protein10, mcIn.targets.carbs10, mcIn.targets.fat10,
        mcIn.session.proteinPercent10, mcIn.session.carbsPercent10, mcIn.session.fatPercent10)

\* C27: if the plan passes validateDietPlanSpecifications for the targets,
\* the plan macroCorrectionLoop returns for it passes it too.
C27_ValidStaysValid ==
    (McReturned /\ McValidationOf(mcIn).isValid) => McValidationOfResult.isValid

\* The macro tag of a candidate name in PURE_MACRO_CANDIDATES.
CandidateMacro(name) ==
    PURE_MACRO_CANDIDATES[CHOOSE k \in 1..Len(PURE_MACRO_CANDIDATES) :
                             PURE_MACRO_CANDIDATES[k].name = name].macro

\* C28: every picked candidate is tagged with a macro deficient by more than
\* 1 g, at most maxCandidates (default 3) are picked, and every macro
\* deficient by more than 1 g has a picked candidate dense in it.
C28_PickedCandidatesCoverDeficits ==
    (mcPc = "solve" \/ mcPc = "done") =>
        LET d == McDeficit(mcIn.meals, mcIn.selectedFoods, mcIn.targets)
            picked == PickedProfiles(d, mcIn.options)
            needed == { m \in {"protein", "carbs", "fat"} : MacroOf(d, m) > 10 }
        IN  /\ \A i \in 1..Len(picked) : CandidateMacro(picked[i].name) \in needed
            /\ Len(picked) <= OrDefault(mcIn.options.maxCandidates, DefaultMaxCandidates)
            /\ \A m \in needed : \E i \in 1..Len(picked) : CandidateMacro(picked[i].name) = m

(***************************************************************************)
(* C26: proposer requests of a session                                     *)
(***************************************************************************)

\* C26: every attempt of a planning session sends exactly one
\* generateContent request, so a session sends at most maxAttempts (10)
\* requests.
C26_OneRequestPerAttempt ==
    /\ gpLog.requests = gpLog.attemptsDone
    /\ gpLog.requests <= maxAttempts

(***************************************************************************)
(* selectBestFood (lines 652-731), running beside a planning session       *)
(***************************************************************************)

NotSbVars == <<tgtVars, valVars, mbVars, nnVars, mcVars, pdVars, csVars, fcVars>>

\* if (!isAIAvailable()) return null; otherwise the prompt is built and
\* generateContent is awaited.
selectBestFood_Enter ==
    /\ sbPc = "idle"
    /\ IF ~isAIAvailable
       THEN sbPc' = "idle" /\ sbOut' = [status |-> "null"]
       ELSE sbPc' = "request" /\ sbOut' = NoCall
    /\ UNCHANGED <<aiVars, gpVars, NotSbVars>>

\* The request is answered: a parsed choice, or null (no JSON in the text,
\* a parse failure, an error that is not a quota error).
selectBestFood_Answer(status) ==
    /\ sbPc = "request"
    /\ sbPc' = "idle"
    /\ sbOut' = [status |-> status]
    /\ UNCHANGED <<aiVars, gpVars, NotSbVars>>

\* The request fails with a quota error: setBackoffFromError(error), then
\* throw new QuotaError (lines 721-727).
selectBestFood_QuotaError(err) ==
    /\ sbPc = "request"
    /\ quotaBackoffUntil' = now + BackoffSeconds(err)
    /\ sbPc' = "idle"
    /\ sbOut' = [status |-> "quotaError"]
    /\ UNCHANGED <<genAI, now, gpVars, NotSbVars>>

\* Planning sessions for the README input, in which an attempt yields no
\* plan or the on-target one, and food selections made while they run.
SpecBackoffInit == Init
SpecBackoffNext ==
    \/ Tick
    \/ \E in \in { g \in GpSessionSet : g.proteinPercent10 = 400 /\ g.carbsPercent10 = 350 } :
          generateDietPlan_Enter(in)
    \/ \E cause \in NoResultCauses, err \in QuotaErrorSet : AttemptNoResult(cause, err)
    \/ AttemptPlan(GpExact)
    \/ selectBestFood_Enter
    \/ \E status \in {"choice", "null"} : selectBestFood_Answer(status)
    \/ \E err \in QuotaErrorSet : selectBestFood_QuotaError(err)
SpecBackoff == SpecBackoffInit /\ [][SpecBackoffNext]_vars

\* C29: while a backoff window is active (now < quotaBackoffUntil) no step
\* moves quotaBackoffUntil to an earlier time.
C29_DeadlineNeverMovesEarlier ==
    [][isQuotaBlocked => quotaBackoffUntil' >= quotaBackoffUntil]_vars

(***************************************************************************)
(* googleAiService: the portion-correction strategies                      *)
(* programmaticAdjustPortions, redistributePortionsForMacros and           *)
(* exactScalingSolver(meals, selectedFoods, targets, options).             *)
(* Quantities are in tenths of a gram; a strategy writes whole grams.      *)
(* Each strategy works on newMeals = JSON.parse(JSON.stringify(meals)).    *)
(***************************************************************************)

NotCsVars == <<tgtVars, valVars, mbVars, aiVars, gpVars, mcVars, pdVars, sbVars, fcVars>>

\* An option that is not given (undefined).
NoOption == -1

\* options.x || dflt: an absent option and 0 both give the default.
OptionOr(value, dflt) == IF value = NoOption \/ value = 0 THEN dflt ELSE value
\* options.x ?? dflt: only an absent option gives the default.
OptionNullish(value, dflt) == IF value = NoOption THEN dflt ELSE value

DefaultMaxScalePercent == 10

\* totalCalories of the totals loop (lines 1542-1552, 1592-1606, 1758-1763):
\* portions with a profile and a non-zero quantity, rounded per portion.
StrategyCalories(meals, selectedFoods) ==
    McTotals(FlattenFoods(meals), selectedFoods).calories

\* calorieDiff = targets.calories - totalCalories, in tenths of a kcal.
CalorieDiff10(meals, selectedFoods, targets) ==
    targets.calories10 - 10 * StrategyCalories(meals, selectedFoods)

\* scaleFactor = 1 + max(-maxScale/100, min(maxScale/100,
\*                        calorieDiff / max(1, totalCalories))), as num / den.
ScaleFactor(calorieDiff10, totalCalories, maxScale) ==
    LET t == Max(1, totalCalories)
    IN  IF 10 * calorieDiff10 > maxScale * t THEN [ num |-> 100 + maxScale, den |-> 100 ]
        ELSE IF 10 * calorieDiff10 < -(maxScale * t) THEN [ num |-> 100 - maxScale, den |-> 100 ]
        ELSE [ num |-> 10 * t + calorieDiff10, den |-> 10 * t ]

\* Math.max(1, Math.round(food.quantity * scaleFactor)), in tenths of a gram;
\* `if (!food.quantity) continue` leaves a zero quantity alone.
ScaledQuantity10(quantity10, factor) ==
    IF quantity10 = 0 THEN 0
    ELSE 10 * Max(1, Round(quantity10 * factor.num, 10 * factor.den))

\* The loop over newMeals that writes the scaled quantities.
ScaleMeals(meals, factor) ==
    [ mi \in 1..Len(meals) |->
        [ meals[mi] EXCEPT !.foods =
            [ fi \in 1..Len(meals[mi].foods) |->
                [ meals[mi].foods[fi] EXCEPT
                    !.quantity10 = ScaledQuantity10(@, factor) ] ] ] ]

\* Mutant of the threshold: a deviation of exactly 30 kcal is left alone.
TooSmallToAdjust_AtMost30(calorieDiff10) == Abs(calorieDiff10) <= 300

\* if (Math.abs(calorieDiff) < 30) return null
TooSmallToAdjust(calorieDiff10) == Abs(calorieDiff10) < 300

programmaticAdjustPortions(meals, selectedFoods, targets, options) ==
    LET maxScale == OptionOr(options.maxScalePercentPerAttempt, DefaultMaxScalePercent)
        totalCalories == StrategyCalories(meals, selectedFoods)
        calorieDiff10 == CalorieDiff10(meals, selectedFoods, targets)
    IN  IF TooSmallToAdjust(calorieDiff10) THEN [status |-> "null"]
        ELSE [ status |-> "meals",
               meals |-> ScaleMeals(meals, ScaleFactor(calorieDiff10, totalCalories, maxScale)) ]

\* computeTotals(mMeals): calories rounded per portion, the macros rounded
\* to a tenth of a gram at the end.
computeTotals(meals, selectedFoods) ==
    LET t == McTotals(FlattenFoods(meals), selectedFoods)
    IN  [ calories |-> t.calories, protein10 |-> Round(t.protein4, 1000),
          carbs10 |-> Round(t.carbs4, 1000), fat10 |-> Round(t.fat4, 1000) ]

\* targets[macro] - totals[macro], in tenths of a gram.
MacroDiff10(meals, selectedFoods, targets, macro) ==
    LET totals == computeTotals(meals, selectedFoods)
    IN  CASE macro = "protein" -> targets.protein10 - totals.protein10
          [] macro = "carbs"   -> targets.carbs10 - totals.carbs10
          [] OTHER             -> targets.fat10 - totals.fat10

\* if (Math.abs(totals.calories - targets.calories) > 200) return null
CaloriesFarOff(meals, selectedFoods, targets) ==
    Abs(CalorieDiff10(meals, selectedFoods, targets)) > 2000

\* The break of the loop: protein and carbs within 10 g, fat within 8 g.
WithinStricterTolerances(meals, selectedFoods, targets) ==
    /\ Abs(MacroDiff10(meals, selectedFoods, targets, "protein")) <= 100
    /\ Abs(MacroDiff10(meals, selectedFoods, targets, "carbs")) <= 100
    /\ Abs(MacroDiff10(meals, selectedFoods, targets, "fat")) <= 80

\* The candidates of a round, in meal order: positions <<mi, fi>> of the
\* portions with a profile, a quantity and calories_per_100g > 0.
RECURSIVE CandidatesFrom(_, _, _, _)
CandidatesFrom(meals, selectedFoods, mi, fi) ==
    IF mi > Len(meals) THEN << >>
    ELSE IF fi > Len(meals[mi].foods) THEN CandidatesFrom(meals, selectedFoods, mi + 1, 1)
    ELSE LET food == meals[mi].foods[fi]
             rest == CandidatesFrom(meals, selectedFoods, mi, fi + 1)
         IN  IF /\ food.id \in DOMAIN selectedFoods
                /\ food.quantity10 # 0
                /\ selectedFoods[food.id].calories_per_100g > 0
             THEN << <<mi, fi>> >> \o rest
             ELSE rest

\* metric(a) > metric(b) for the macro per calorie of two candidates.
DenserThan(meals, selectedFoods, macro, a, b) ==
    LET pa == selectedFoods[meals[a[1]].foods[a[2]].id]
        pb == selectedFoods[meals[b[1]].foods[b[2]].id]
    IN  MacroOf(pa, macro) * pb.calories_per_100g > MacroOf(pb, macro) * pa.calories_per_100g

\* Insert c into a list sorted by descending metric, after its equals.
RECURSIVE InsertByMetric(_, _, _, _, _)
InsertByMetric(meals, selectedFoods, macro, sorted, c) ==
    IF sorted = << >> THEN << c >>
    ELSE IF DenserThan(meals, selectedFoods, macro, c, Head(sorted))
    THEN << c >> \o sorted
    ELSE << Head(sorted) >> \o InsertByMetric(meals, selectedFoods, macro, Tail(sorted), c)

\* candidates.sort((a, b) => metric(b) - metric(a)): a stable sort of the
\* first k candidates.
RECURSIVE SortByMetric(_, _, _, _, _)
SortByMetric(meals, selectedFoods, macro, candidates, k) ==
    IF k = 0 THEN << >>
    ELSE InsertByMetric(meals, selectedFoods, macro,
                        SortByMetric(meals, selectedFoods, macro, candidates, k - 1),
                        candidates[k])

DefaultMaxPercent == 20
DefaultIterations == 5

\* Math.min(maxPercent, Math.max(2, Math.abs(diff) > 50 ? Math.round(maxPercent) : 6))
StepPercent(maxPercent, diff10) ==
    Min(maxPercent, Max(2, IF Abs(diff10) > 500 THEN maxPercent ELSE 6))

\* Math.max(1, Math.round(currentQty * (1 + pct))), in tenths of a gram.
ChangedQuantity10(quantity10, signedPercent) ==
    10 * Max(1, Round(quantity10 * (100 + signedPercent), 1000))

\* Mutant of the progress test: every change is kept.
MadeProgress_Always(newDiff10, diff10) == TRUE

\* Math.abs(newDiff) < Math.abs(diff), the same test for both directions
MadeProgress(newDiff10, diff10) == Abs(newDiff10) < Abs(diff10)

\* The loop over the sorted candidates from index k on: change one
\* quantity, keep it on progress, else restore it and try the next.
RECURSIVE TryCandidates(_, _, _, _, _, _, _, _)
TryCandidates(meals, selectedFoods, targets, macro, diff10, signedPercent, sorted, k) ==
    IF k > Len(sorted) THEN meals
    ELSE LET mi == sorted[k][1]
             fi == sorted[k][2]
             changed == [ meals EXCEPT ![mi].foods[fi].quantity10 =
                                           ChangedQuantity10(@, signedPercent) ]
         IN  IF MadeProgress(MacroDiff10(changed, selectedFoods, targets, macro), diff10)
             THEN changed
             ELSE TryCandidates(meals, selectedFoods, targets, macro, diff10,
                                signedPercent, sorted, k + 1)

\* adjustFor(macro, diff)
adjustFor(meals, selectedFoods, targets, maxPercent, macro) ==
    LET diff10 == MacroDiff10(meals, selectedFoods, targets, macro)
        candidates == CandidatesFrom(meals, selectedFoods, 1, 1)
        sorted == SortByMetric(meals, selectedFoods, macro, candidates, Len(candidates))
        pct == StepPercent(maxPercent, diff10)
    IN  IF Abs(diff10) < 50 THEN meals
        ELSE TryCandidates(meals, selectedFoods, targets, macro, diff10,
                           IF diff10 > 0 THEN pct ELSE -pct, sorted, 1)

\* The macro adjusted in a round: protein, then carbs, then fat on ties.
PrioritizedMacro(meals, selectedFoods, targets) ==
    LET absProt == Abs(MacroDiff10(meals, selectedFoods, targets, "protein"))
        absCarb == Abs(MacroDiff10(meals, selectedFoods, targets, "carbs"))
        absFat  == Abs(MacroDiff10(meals, selectedFoods, targets, "fat"))
    IN  IF absProt >= absCarb /\ absProt >= absFat THEN "protein"
        ELSE IF absCarb >= absProt /\ absCarb >= absFat THEN "carbs"
        ELSE "fat"

\* flat: the positions <<mi, fi>> of the portions with a profile and a
\* quantity, in meal order.
RECURSIVE FlatFrom(_, _, _, _)
FlatFrom(meals, selectedFoods, mi, fi) ==
    IF mi > Len(meals) THEN << >>
    ELSE IF fi > Len(meals[mi].foods) THEN FlatFrom(meals, selectedFoods, mi + 1, 1)
    ELSE LET food == meals[mi].foods[fi]
             rest == FlatFrom(meals, selectedFoods, mi, fi + 1)
         IN  IF food.id \in DOMAIN selectedFoods /\ food.quantity10 # 0
             THEN << <<mi, fi>> >> \o rest
             ELSE rest

\* A: protein, carbs and fat per gram of each flattened portion (thousandths).
ScalingMatrix(meals, selectedFoods, flat) ==
    MatrixOf([ j \in 1..Len(flat) |->
                 LET p == selectedFoods[meals[flat[j][1]].foods[flat[j][2]].id]
                 IN  << p.protein10, p.carbs10, p.fat10 >> ])

\* b = [targets.protein, targets.carbs, targets.fat] (thousandths of a gram).
ScalingTarget(targets) ==
    << 100 * targets.protein10, 100 * targets.carbs10, 100 * targets.fat10 >>

ExactMaxIter == 1000
DefaultMaxScalePerFoodPercent == 200
\* Math.max(0.1, ...) and minFactor = 0.01, in percent.
MaxFactorFloorPercent == 10
MinFactorPercent == 1

\* maxFactor = Math.max(0.1, maxScalePercent / 100), in percent.
MaxFactorPercent(options) ==
    Max(MaxFactorFloorPercent,
        OptionNullish(options.maxScalePerFoodPercent, DefaultMaxScalePerFoodPercent))

\* Mutant of the factor test: only the upper cap is applied.
FactorOutOfRange_NoLowerBound(grams, quantity10, maxPercent) ==
    grams * 1000 > maxPercent * quantity10

\* factor > maxFactor || factor < minFactor for factor = grams / orig.
FactorOutOfRange(grams, quantity10, maxPercent) ==
    \/ grams * 1000 > maxPercent * quantity10
    \/ grams * 1000 < MinFactorPercent * quantity10

\* The loop over the solution from index j on: null at the first portion
\* whose grams are not positive or whose factor is out of range, else the
\* plan with every flattened portion's quantity replaced.
RECURSIVE ApplySolution(_, _, _, _, _)
ApplySolution(newMeals, flat, x, maxPercent, j) ==
    IF j > Len(flat) THEN [status |-> "meals", meals |-> newMeals]
    ELSE LET grams == Max(0, Round(x[j], XScale))
             mi == flat[j][1]
             fi == flat[j][2]
         IN  IF grams <= 0 \/ FactorOutOfRange(grams, newMeals[mi].foods[fi].quantity10, maxPercent)
             THEN [status |-> "null"]
             ELSE ApplySolution([newMeals EXCEPT ![mi].foods[fi].quantity10 = 10 * grams],
                                flat, x, maxPercent, j + 1)

\* Math.abs(totalCals - targets.calories) >
\*     Math.max(100, Math.round(targets.calories * 0.1))
CaloriesUnreasonable(meals, selectedFoods, targets) ==
    Abs(CalorieDiff10(meals, selectedFoods, targets))
        > 10 * Max(100, Round(targets.calories10, 100))

\* The plan a strategy is called with: the README session's targets, a plan
\* around them, and a snack of rolled oats (tenths of a gram).
CsSession ==
    CHOOSE in \in McSessionSet : in.proteinPercent10 = 400

CsShapes ==
    [ dProtein : {0, -300, 300, 510}, dCarbs : {0, -75, -80, -1000}, dFat : {0, -90},
      extra : {0, 290, 300, 310, 4000}, oats10 : {0, 5, 40} ]

\* The plans exactScalingSolver is called with: on target; 130 g and 129 g
\* of the protein food; 26 kg and 26.01 kg of it; with the calories-only
\* food; with a snack; 300 g of oats alone; only the portion without a
\* profile; twelve times the target amounts.
CsBaseShape == [ dProtein |-> 0, dCarbs |-> 0, dFat |-> 0, extra |-> 0, oats10 |-> 0 ]
CsNoMacroFoods == [ CsBaseShape EXCEPT !.dProtein = -2600, !.dCarbs = -2275, !.dFat = -722 ]
ExactShapes ==
    { CsBaseShape,
      [CsBaseShape EXCEPT !.dProtein = -1300], [CsBaseShape EXCEPT !.dProtein = -1310],
      [CsBaseShape EXCEPT !.dProtein = 257400], [CsBaseShape EXCEPT !.dProtein = 257500],
      [CsBaseShape EXCEPT !.extra = 300], [CsBaseShape EXCEPT !.oats10 = 40],
      [CsNoMacroFoods EXCEPT !.oats10 = 3000], CsNoMacroFoods,
      [CsBaseShape EXCEPT !.dProtein = 28600, !.dCarbs = 25025, !.dFat = 7942] }

CsShapesOf(strategy) == IF strategy = "exact" THEN ExactShapes ELSE CsShapes

CsPlanOf(tg, sh) ==
    PlanOf(tg, [dProtein |-> sh.dProtein, dCarbs |-> sh.dCarbs, dFat |-> sh.dFat,
                extra |-> sh.extra, alt |-> FALSE])
    \o (IF sh.oats10 > 0
        THEN << [name |-> "Snack", foods |-> << Portion("alt", sh.oats10, FALSE) >>] >>
        ELSE << >>)

NoOptions ==
    [ maxScalePercentPerAttempt |-> NoOption, maxPercentChangePerFood |-> NoOption,
      iterations |-> NoOption, maxScalePerFoodPercent |-> NoOption ]

CsOptionSet(strategy) ==
    CASE strategy = "programmatic" ->
           { [NoOptions EXCEPT !.maxScalePercentPerAttempt = v] : v \in {NoOption, 0, 5} }
      [] strategy = "redistribute" ->
           { NoOptions, [NoOptions EXCEPT !.maxPercentChangePerFood = 50],
             [NoOptions EXCEPT !.iterations = 1] }
      [] OTHER ->
           { [NoOptions EXCEPT !.maxScalePerFoodPercent = v] : v \in {NoOption, 5} }

CsStrategies == {"programmatic", "redistribute", "exact"}

CsInit ==
    /\ \E strategy \in CsStrategies :
         \E sh \in CsShapesOf(strategy), op \in CsOptionSet(strategy) :
            /\ csIn = [ status |-> "in", strategy |-> strategy, shape |-> sh,
                        selectedFoods |-> PlanFoods, targets |-> McTargetsOf(CsSession),
                        options |-> op ]
            /\ csPlan = CsPlanOf(TargetsOf(CsSession), sh)
    /\ csNew = << >>
    /\ csIt = 0
    /\ csPc = "start"
    /\ csOut = NoCall

\* Mutant of the deep copy: newMeals is the caller's array itself, so what is
\* written to newMeals is written to meals.
CallerPlanAfterWrite_Aliased(meals, newMeals) == newMeals

\* newMeals = JSON.parse(JSON.stringify(meals)) shares no object with meals:
\* after any write to newMeals the caller's plan is what it was.
CallerPlanAfterWrite(meals, newMeals) == meals

\* One call of programmaticAdjustPortions (lines 1527-1574).
CallProgrammaticAdjust ==
    /\ csPc = "start"
    /\ csIn.strategy = "programmatic"
    /\ LET r == programmaticAdjustPortions(csPlan, csIn.selectedFoods, csIn.targets, csIn.options)
       IN  /\ csOut' = r
           /\ csNew' = IF r.status = "meals" THEN r.meals ELSE csNew
           /\ csPlan' = IF r.status = "meals" THEN CallerPlanAfterWrite(csPlan, r.meals) ELSE csPlan
    /\ csPc' = "done"
    /\ UNCHANGED <<csIn, csIt, nnVars, NotCsVars>>

\* redistributePortionsForMacros, lines 1585-1612: the options, the deep
\* copy, the first totals and the calorie precondition.
RedistributeEnter ==
    /\ csPc = "start"
    /\ csIn.strategy = "redistribute"
    /\ csNew' = csPlan
    /\ csIt' = 0
    /\ IF CaloriesFarOff(csPlan, csIn.selectedFoods, csIn.targets)
       THEN csOut' = [status |-> "null"] /\ csPc' = "done"
       ELSE /\ csOut' = csOut
            /\ csPc' = IF 0 < OptionNullish(csIn.options.iterations, DefaultIterations)
                       THEN "loop" ELSE "final"
    /\ UNCHANGED <<csIn, csPlan, nnVars, NotCsVars>>

\* One round of the loop (lines 1614-1678): the break on the stricter
\* tolerances or on an empty candidate list, else adjustFor for the macro
\* with the largest deviation, it++ and the loop test.
RedistributeRound ==
    /\ csPc = "loop"
    /\ IF \/ WithinStricterTolerances(csNew, csIn.selectedFoods, csIn.targets)
          \/ CandidatesFrom(csNew, csIn.selectedFoods, 1, 1) = << >>
       THEN csPc' = "final" /\ UNCHANGED <<csNew, csIt, csPlan>>
       ELSE LET macro == PrioritizedMacro(csNew, csIn.selectedFoods, csIn.targets)
                written == adjustFor(csNew, csIn.selectedFoods, csIn.targets,
                                     OptionNullish(csIn.options.maxPercentChangePerFood,
                                                   DefaultMaxPercent), macro)
            IN  /\ csNew' = written
                /\ csPlan' = CallerPlanAfterWrite(csPlan, written)
                /\ csIt' = csIt + 1
                /\ csPc' = IF csIt + 1 < OptionNullish(csIn.options.iterations, DefaultIterations)
                           THEN "loop" ELSE "final"
    /\ UNCHANGED <<csIn, csOut, nnVars, NotCsVars>>

\* Lines 1680-1692: the final calorie check and the return.
RedistributeReturn ==
    /\ csPc = "final"
    /\ csOut' = IF CaloriesFarOff(csNew, csIn.selectedFoods, csIn.targets)
                THEN [status |-> "null"]
                ELSE [status |-> "meals", meals |-> csNew]
    /\ csPc' = "done"
    /\ UNCHANGED <<csIn, csPlan, csNew, csIt, nnVars, NotCsVars>>

\* exactScalingSolver, lines 1710-1734: flat, the early return, A, b and
\* the call nnlsSolve(A, b, 1000).
ExactEnter ==
    /\ csPc = "start"
    /\ csIn.strategy = "exact"
    /\ LET flat == FlatFrom(csPlan, csIn.selectedFoods, 1, 1)
       IN  IF flat = << >>
           THEN /\ csOut' = [status |-> "null"]
                /\ csPc' = "done"
                /\ UNCHANGED nnVars
           ELSE /\ nnIn' = [ A |-> ScalingMatrix(csPlan, csIn.selectedFoods, flat),
                             b |-> ScalingTarget(csIn.targets), maxIter |-> ExactMaxIter ]
                /\ nnX' = << >>
                /\ nnIter' = 0
                /\ nnPc' = "start"
                /\ nnOut' = NoCall
                /\ csPc' = "solve"
                /\ UNCHANGED csOut
    /\ UNCHANGED <<csIn, csPlan, csNew, csIt, NotCsVars>>

\* Lines 1735-1766: the solution check, the factors, the new quantities
\* written to the deep copy, and the calorie check.
ExactFinish ==
    /\ csPc = "solve"
    /\ nnPc = "done"
    /\ LET flat == FlatFrom(csPlan, csIn.selectedFoods, 1, 1)
           applied == IF nnOut.status = "null" THEN [status |-> "null"]
                      ELSE ApplySolution(csPlan, flat, nnOut.x,
                                         MaxFactorPercent(csIn.options), 1)
       IN  IF applied.status = "null"
           THEN csOut' = [status |-> "null"] /\ UNCHANGED <<csNew, csPlan>>
           ELSE /\ csNew' = applied.meals
                /\ csPlan' = CallerPlanAfterWrite(csPlan, applied.meals)
                /\ csOut' = IF CaloriesUnreasonable(applied.meals, csIn.selectedFoods, csIn.targets)
                            THEN [status |-> "null"] ELSE applied
    /\ csPc' = "done"
    /\ UNCHANGED <<csIn, csIt, nnVars, NotCsVars>>

SpecStrategiesInit ==
    CsInit /\ SbIdle /\ FcIdle /\ NnIdle /\ TgtIdle /\ ValIdle /\ MbIdle /\ GpInit /\ McIdle /\ PdIdle
SpecStrategiesNext ==
    \/ CallProgrammaticAdjust
    \/ RedistributeEnter \/ RedistributeRound \/ RedistributeReturn
    \/ ExactEnter \/ NnlsEnter \/ NnlsSweep \/ NnlsReturn \/ ExactFinish
SpecStrategies == SpecStrategiesInit /\ [][SpecStrategiesNext]_vars

\* A finished call of the named strategy.
CsReturned(strategy) == csPc = "done" /\ csIn.strategy = strategy

\* The portions of the caller's plan and of the returned plan, in meal order.
CsOldFoods == FlattenFoods(csPlan)
CsNewFoods == FlattenFoods(csOut.meals)

\* The returned plan has the meals and portions of the plan passed in; only
\* quantities may differ.
CsSamePortions ==
    /\ Len(csOut.meals) = Len(csPlan)
    /\ \A mi \in 1..Len(csPlan) :
          /\ csOut.meals[mi].name = csPlan[mi].name
          /\ Len(csOut.meals[mi].foods) = Len(csPlan[mi].foods)
          /\ \A fi \in 1..Len(csPlan[mi].foods) :
                csOut.meals[mi].foods[fi].id = csPlan[mi].foods[fi].id

\* C22 as stated: no adjustment at a calorie deviation of 30 kcal or less; above
\* 30 kcal every portion with a quantity moves in the direction of the deficit.
C22_AdjustsOnlyAbove30 ==
    CsReturned("programmatic") =>
        LET diff10 == CalorieDiff10(csPlan, csIn.selectedFoods, csIn.targets)
        IN  /\ Abs(diff10) <= 300 => csOut.status = "null"
            /\ Abs(diff10) > 300 =>
                  /\ csOut.status = "meals"
                  /\ \A i \in 1..Len(CsOldFoods) :
                        CsOldFoods[i].quantity10 > 0 =>
                            IF diff10 > 0
                            THEN CsNewFoods[i].quantity10 > CsOldFoods[i].quantity10
                            ELSE CsNewFoods[i].quantity10 < CsOldFoods[i].quantity10

\* C22 (amended): programmaticAdjustPortions returns no adjustment when the
\* absolute calorie deviation is below 30 kcal and adjusts the plan from 30 kcal
\* on; it then sets every non-zero quantity q to max(1, round(q * f)) whole
\* grams for the single factor f = 1 + clamp(calorieDiff / max(1, total),
\* +-maxScale%) (10% when the option is absent or 0): f lies on the side of
\* the deficit, within maxScale percent of 1, and every new quantity is
\* within half a gram of q * f or is the floor of 1 g.
C22_ScalesFromThirtyKcal ==
    CsReturned("programmatic") =>
        LET diff10 == CalorieDiff10(csPlan, csIn.selectedFoods, csIn.targets)
            total == Max(1, StrategyCalories(csPlan, csIn.selectedFoods))
            maxScale == IF csIn.options.maxScalePercentPerAttempt \in {NoOption, 0}
                        THEN 10 ELSE csIn.options.maxScalePercentPerAttempt
            f == ScaleFactor(diff10, StrategyCalories(csPlan, csIn.selectedFoods), maxScale)
        IN  /\ Abs(diff10) < 300 => csOut.status = "null"
            /\ Abs(diff10) >= 300 =>
                  /\ csOut.status = "meals"
                  /\ CsSamePortions
                  /\ 100 * Abs(f.num - f.den) <= maxScale * f.den
                  /\ (diff10 > 0) = (f.num > f.den)
                  /\ 10 * Abs(diff10) <= maxScale * total =>
                        f.num * 10 * total = f.den * (10 * total + diff10)
                  /\ 10 * Abs(diff10) > maxScale * total =>
                        100 * Abs(f.num - f.den) = maxScale * f.den
                  /\ \A i \in 1..Len(CsOldFoods) :
                        LET q == CsOldFoods[i].quantity10
                            n == CsNewFoods[i].quantity10
                        IN  /\ q = 0 => n = 0
                            /\ q > 0 =>
                                  /\ n % 10 = 0 /\ n >= 10
                                  /\ n = 10 \/ Abs(n * f.den - q * f.num) <= 5 * f.den

\* C22 witness: a plan exactly 30 kcal under the target is scaled up.
C22_Witness ==
    /\ CsReturned("programmatic")
    /\ CalorieDiff10(csPlan, csIn.selectedFoods, csIn.targets) = 300
    /\ csOut.status = "meals"
    /\ \A i \in 1..Len(CsOldFoods) :
          CsNewFoods[i].quantity10 >= CsOldFoods[i].quantity10
    /\ \E i \in 1..Len(CsOldFoods) :
          CsNewFoods[i].quantity10 > CsOldFoods[i].quantity10

\* The positions at which two plans of the same layout differ in quantity.
ChangedPositions(old, new) ==
    { i \in 1..Len(FlattenFoods(old)) :
        FlattenFoods(new)[i].quantity10 # FlattenFoods(old)[i].quantity10 }

CsIterations == IF csIn.options.iterations = NoOption THEN 5 ELSE csIn.options.iterations

\* The macros whose absolute deviation in newMeals is the largest of the three.
LargestDeviationMacros ==
    { m \in {"protein", "carbs", "fat"} :
        \A o \in {"protein", "carbs", "fat"} :
            Abs(MacroDiff10(csNew, csIn.selectedFoods, csIn.targets, m))
                >= Abs(MacroDiff10(csNew, csIn.selectedFoods, csIn.targets, o)) }

\* C23: redistributePortionsForMacros returns null for a plan whose calories
\* are more than 200 kcal from the target; it runs at most `iterations`
\* (default 5) rounds; a round changes the quantity of at most one portion,
\* and only so that the absolute deviation of a macro with the largest
\* deviation of that round becomes strictly smaller; a round that finds
\* protein and carbs within 10 g and fat within 8 g changes nothing and
\* ends the loop.
C23_RedistributeRounds ==
    /\ []( (CsReturned("redistribute")
             /\ Abs(CalorieDiff10(csPlan, csIn.selectedFoods, csIn.targets)) > 2000)
           => csOut.status = "null" )
    /\ []( (csPc # "idle" /\ csIn.strategy = "redistribute") => csIt <= CsIterations )
    /\ [][ (csPc = "loop" /\ csIn.strategy = "redistribute") =>
             /\ Cardinality(ChangedPositions(csNew, csNew')) <= 1
             /\ csNew' # csNew =>
                   \E m \in LargestDeviationMacros :
                       Abs(MacroDiff10(csNew', csIn.selectedFoods, csIn.targets, m))
                           < Abs(MacroDiff10(csNew, csIn.selectedFoods, csIn.targets, m))
             /\ ( /\ Abs(MacroDiff10(csNew, csIn.selectedFoods, csIn.targets, "protein")) <= 100
                  /\ Abs(MacroDiff10(csNew, csIn.selectedFoods, csIn.targets, "carbs")) <= 100
                  /\ Abs(MacroDiff10(csNew, csIn.selectedFoods, csIn.targets, "fat")) <= 80 )
                 => (csNew' = csNew /\ csPc' = "final" /\ csIt' = csIt) ]_vars

\* C23 witness: protein is 51 g over and the step is 50 percent; halving the
\* protein portion would overshoot, so it was restored and the next candidate,
\* the snack, was reduced instead; five rounds were run.
C23_Witness ==
    /\ CsReturned("redistribute")
    /\ csIn.shape.dProtein = 510
    /\ csIn.options.maxPercentChangePerFood = 50
    /\ csOut.status = "meals"
    /\ csIt = 5
    /\ CsNewFoods[1].id = "protein"
    /\ CsNewFoods[1].quantity10 = CsOldFoods[1].quantity10
    /\ \E i \in ChangedPositions(csPlan, csOut.meals) : CsOldFoods[i].id = "alt"

\* The flattened portions of the plan passed to exactScalingSolver.
CsFlat == FlatFrom(csPlan, csIn.selectedFoods, 1, 1)
CsOldQuantity10(j) == csPlan[CsFlat[j][1]].foods[CsFlat[j][2]].quantity10
CsNewQuantity10(j) == csOut.meals[CsFlat[j][1]].foods[CsFlat[j][2]].quantity10
\* Math.max(0, Math.round(solution[j]))
CsSolutionGrams(j) == Max(0, Round(nnOut.x[j], XScale))

\* The plan with the rounded solution as quantities.
CsSolutionPlan ==
    [ mi \in 1..Len(csPlan) |->
        [ csPlan[mi] EXCEPT !.foods =
            [ fi \in 1..Len(csPlan[mi].foods) |->
                IF \E j \in 1..Len(CsFlat) : CsFlat[j] = <<mi, fi>>
                THEN [ csPlan[mi].foods[fi] EXCEPT !.quantity10 =
                         10 * CsSolutionGrams(CHOOSE j \in 1..Len(CsFlat) : CsFlat[j] = <<mi, fi>>) ]
                ELSE csPlan[mi].foods[fi] ] ] ]

\* C24 as stated: a plan is returned only if every rescaled portion's new
\* quantity is between 0.01 and maxScalePerFoodPercent / 100 (default 2.0)
\* times the original and the new total calories are within max(100 kcal,
\* 10% of the target) of the target.
C24_ReturnsOnlyWithinCaps ==
    (CsReturned("exact") /\ csOut.status = "meals") =>
        LET cap == IF csIn.options.maxScalePerFoodPercent = NoOption
                   THEN 200 ELSE csIn.options.maxScalePerFoodPercent
        IN  /\ \A j \in 1..Len(CsFlat) :
                  /\ 100 * CsNewQuantity10(j) >= CsOldQuantity10(j)
                  /\ 100 * CsNewQuantity10(j) <= cap * CsOldQuantity10(j)
            /\ 10 * Abs(CalorieDiff10(csOut.meals, csIn.selectedFoods, csIn.targets))
                  <= Max(10000, csIn.targets.calories10)

\* C24 (amended): exactScalingSolver returns new quantities only if every
\* portion with a profile is rescaled by a factor between 0.01 and
\* max(0.1, maxScalePerFoodPercent / 100) (default 2.0) and the new total
\* calories are within max(100, round(10% of the target)) kcal of the
\* target; it returns null when no portion has a profile, when the solver
\* fails, and whenever one of those conditions fails for the rounded solution.
C24_ReturnsOnlyWithinFlooredCaps ==
    CsReturned("exact") =>
        LET cap == IF csIn.options.maxScalePerFoodPercent = NoOption
                   THEN 200
                   ELSE IF csIn.options.maxScalePerFoodPercent < 10 THEN 10
                   ELSE csIn.options.maxScalePerFoodPercent
            limit10 == IF csIn.targets.calories10 < 10000 THEN 1000
                       ELSE 10 * Round(csIn.targets.calories10, 100)
            inRange(j) == /\ CsSolutionGrams(j) > 0
                          /\ 1000 * CsSolutionGrams(j) >= CsOldQuantity10(j)
                          /\ 1000 * CsSolutionGrams(j) <= cap * CsOldQuantity10(j)
            acceptable == /\ CsFlat # << >>
                          /\ nnOut.status = "array"
                          /\ \A j \in 1..Len(CsFlat) : inRange(j)
                          /\ Abs(CalorieDiff10(CsSolutionPlan, csIn.selectedFoods, csIn.targets))
                                <= limit10
        IN  IF acceptable
            THEN csOut.status = "meals" /\ csOut.meals = CsSolutionPlan
            ELSE csOut.status = "null"

\* C24 witness: with maxScalePerFoodPercent = 5 a plan of twelve times the
\* target amounts is returned with every portion at about a twelfth of its
\* quantity, above 5 percent and below 10.
C24_Witness ==
    /\ CsReturned("exact")
    /\ csOut.status = "meals"
    /\ csIn.options.maxScalePerFoodPercent = 5
    /\ Len(CsFlat) = 3
    /\ \A j \in 1..Len(CsFlat) :
          /\ 100 * CsNewQuantity10(j) > 5 * CsOldQuantity10(j)
          /\ 100 * CsNewQuantity10(j) <= 10 * CsOldQuantity10(j)

\* The plan the caller built before the call.
CsCallerPlan == CsPlanOf(TargetsOf(CsSession), csIn.shape)

\* C30 as stated: no strategy changes the plan it is given, whether it
\* returns a plan or null, and in a returned plan every portion that had a
\* positive quantity has at least 1 g.
C30_InputUntouchedFloorOne ==
    csPc # "idle" =>
        /\ csPlan = CsCallerPlan
        /\ (csPc = "done" /\ csOut.status = "meals") =>
               \A i \in 1..Len(CsOldFoods) :
                   CsOldFoods[i].quantity10 > 0 => CsNewFoods[i].quantity10 >= 10

\* C30 (amended): no strategy changes the plan it is given, whether it
\* returns a plan or null; a returned plan has the same meals and portions,
\* and each of its quantities is either the one passed in or a whole number
\* of grams that is at least 1.
C30_InputUntouchedWrittenFloorOne ==
    csPc # "idle" =>
        /\ csPlan = CsCallerPlan
        /\ (csPc = "done" /\ csOut.status = "meals") =>
               /\ CsSamePortions
               /\ \A i \in 1..Len(CsOldFoods) :
                     \/ CsNewFoods[i].quantity10 = CsOldFoods[i].quantity10
                     \/ CsNewFoods[i].quantity10 >= 10 /\ CsNewFoods[i].quantity10 % 10 = 0

\* C30 witness: redistributePortionsForMacros returns a plan in which one
\* quantity was changed and a 0.5 g snack was not, and the caller's plan is
\* the one passed in.
C30_Witness ==
    /\ CsReturned("redistribute")
    /\ csOut.status = "meals"
    /\ csOut.meals # csPlan
    /\ csPlan = CsCallerPlan
    /\ \E i \in 1..Len(CsOldFoods) :
          CsOldFoods[i].quantity10 = 5 /\ CsNewFoods[i].quantity10 = 5

(***************************************************************************)
(* googleAiService: macroProfileCache, cacheMacroProfile, getCachedProfile *)
(* and fetchAndCacheProfile(foodName), called by several sessions.  A call *)
(* runs without interruption between its awaits: the entry (cache check,   *)
(* fallback table, start of the two searches), the continuation after the  *)
(* searches, and the continuation after the detail request.                *)
(***************************************************************************)

NotFcVars == <<tgtVars, valVars, mbVars, nnVars, aiVars, gpVars, mcVars, pdVars, sbVars, csVars>>

\* The names the calls are made with.
FcNames == {"Chicken", "Banana", "banana", ""}

\* name.trim().toLowerCase() and key.toLowerCase() on the names in use.
ToLowerCase(name) == IF name = "Banana" THEN "banana" ELSE IF name = "Chicken" THEN "chicken" ELSE name

\* const map = {...}; return map[s] || name
standardizeFoodName(name) ==
    IF name = "" THEN name
    ELSE CASE ToLowerCase(name) = "chicken"        -> "chicken breast, skinless"
           [] ToLowerCase(name) = "chicken breast" -> "chicken breast, skinless"
           [] ToLowerCase(name) = "brown rice"     -> "brown rice, cooked"
           [] ToLowerCase(name) = "white rice"     -> "rice, white, cooked"
           [] ToLowerCase(name) = "olive oil"      -> "olive oil"
           [] ToLowerCase(name) = "egg white"      -> "egg, white, raw"
           [] ToLowerCase(name) = "whey"           -> "whey protein, isolate"
           [] OTHER                                -> name

\* getCachedProfile(key): null for an empty key or a missing entry.
HasCachedProfile(cache, key) == key # "" /\ ToLowerCase(key) \in DOMAIN cache
getCachedProfile(cache, key) == cache[ToLowerCase(key)]

\* cacheMacroProfile(key, profile): the Map after the call.
cacheMacroProfile(cache, key, profile) ==
    IF key = "" THEN cache
    ELSE [ k \in DOMAIN cache \cup {ToLowerCase(key)} |->
             IF k = ToLowerCase(key) THEN profile ELSE cache[k] ]

\* A field that the detailed food record does not have (undefined).
MissingField == -1

\* Mutant of the profile construction: fields are copied as they are.
FieldOrZero_Raw(value) == value

\* detailed.x || 0
FieldOrZero(value) == IF value = MissingField THEN 0 ELSE value

\* const profile = { calories_per_100g: detailed.calories_per_100g || 0, ... }
ProfileOf(detailed) ==
    Profile(FieldOrZero(detailed.calories_per_100g), FieldOrZero(detailed.protein10),
            FieldOrZero(detailed.carbs10), FieldOrZero(detailed.fat10))

\* The detailed records the two food databases return for a banana: a
\* full one from Nutritionix, and from FatSecret one without the fat field
\* and a full one with other values.
DetailedOf(source) ==
    IF source = "nutritionix"
    THEN { Profile(89, 11, 228, 3) }
    ELSE { Profile(90, 10, 230, MissingField), Profile(95, 12, 240, 4) }

\* Bound of the cache model: the number of fetchAndCacheProfile calls.
MaxFetchCalls == 3

\* Lines 1837-1849: the cache check, the fallback table, and the start of
\* the two searches.
FetchEnter(s, name) ==
    /\ fcCall[s].pc = "idle"
    /\ fcLog.calls < MaxFetchCalls
    /\ LET standardized == standardizeFoodName(name)
           started == [pc |-> "search", name |-> name, source |-> "none", out |-> NoCall,
                       made |-> fcCall[s].made + 1]
           returned(p) == [pc |-> "idle", name |-> name, source |-> "none",
                           out |-> [status |-> "profile", profile |-> p],
                           made |-> fcCall[s].made + 1]
       IN  IF HasCachedProfile(macroProfileCache, standardized)
           THEN /\ fcCall' = [fcCall EXCEPT ![s] = returned(getCachedProfile(macroProfileCache, standardized))]
                /\ macroProfileCache' = macroProfileCache
                /\ fcLog' = [fcLog EXCEPT !.calls = @ + 1]
           ELSE IF ToLowerCase(standardized) \in DOMAIN FALLBACK_PROFILES
           THEN /\ fcCall' = [fcCall EXCEPT ![s] = returned(FALLBACK_PROFILES[ToLowerCase(standardized)])]
                /\ macroProfileCache' =
                      cacheMacroProfile(macroProfileCache, standardized,
                                        FALLBACK_PROFILES[ToLowerCase(standardized)])
                /\ fcLog' = [fcLog EXCEPT !.calls = @ + 1]
           ELSE /\ fcCall' = [fcCall EXCEPT ![s] = started]
                /\ macroProfileCache' = macroProfileCache
                /\ fcLog' = [fcLog EXCEPT !.calls = @ + 1, !.lookups = @ + 1]
    /\ UNCHANGED NotFcVars

\* Lines 1851-1857: the searches are settled.  "nutritionix": nRes has a
\* result; "fatsecret": only fRes has one; "none": neither; "error": one
\* of the searches rejected.
FetchSearched(s, outcome) ==
    /\ fcCall[s].pc = "search"
    /\ fcCall' = [fcCall EXCEPT ![s] =
                    IF outcome \in {"nutritionix", "fatsecret"}
                    THEN [@ EXCEPT !.pc = "detail", !.source = outcome]
                    ELSE [@ EXCEPT !.pc = "idle", !.out = [status |-> "null"]]]
    /\ UNCHANGED <<macroProfileCache, fcLog, NotFcVars>>

\* Lines 1859-1871: the detail request is settled with a record (the
\* profile is built, cached and returned) or without one (null).
FetchDetailed(s, hasDetailed, detailed) ==
    /\ fcCall[s].pc = "detail"
    /\ detailed \in DetailedOf(fcCall[s].source)
    /\ IF hasDetailed
       THEN LET profile == ProfileOf(detailed)
                standardized == standardizeFoodName(fcCall[s].name)
            IN  /\ macroProfileCache' = cacheMacroProfile(macroProfileCache, standardized, profile)
                /\ fcCall' = [fcCall EXCEPT ![s] =
                                [@ EXCEPT !.pc = "idle",
                                          !.out = [status |-> "profile", profile |-> profile]]]
                /\ fcLog' = [fcLog EXCEPT !.returned =
                                @ \cup { <<ToLowerCase(standardized), profile>> }]
       ELSE /\ fcCall' = [fcCall EXCEPT ![s] = [@ EXCEPT !.pc = "idle", !.out = [status |-> "null"]]]
            /\ UNCHANGED <<macroProfileCache, fcLog>>
    /\ UNCHANGED NotFcVars

SpecCacheInit == Init
SpecCacheNext ==
    \/ \E s \in FcSessions, name \in FcNames : FetchEnter(s, name)
    \/ \E s \in FcSessions, outcome \in {"nutritionix", "fatsecret", "none", "error"} :
          FetchSearched(s, outcome)
    \/ \E s \in FcSessions, hasDetailed \in BOOLEAN :
          \E detailed \in DetailedOf("nutritionix") \cup DetailedOf("fatsecret") :
             FetchDetailed(s, hasDetailed, detailed)
SpecCache == SpecCacheInit /\ [][SpecCacheNext]_vars

\* A profile with its four values.
CompleteProfile(p) ==
    /\ DOMAIN p = {"calories_per_100g", "protein10", "carbs10", "fat10"}
    /\ \A f \in DOMAIN p : p[f] \in Nat

\* C25: under every interleaving of the calls of two sessions, every cache
\* entry is a complete profile that an external lookup produced for that
\* key or that the fallback table holds for it; a call that finds an entry
\* returns that entry, starts no lookup and leaves the cache as it is.
C25_CacheNeverCorrupted ==
    /\ []( \A key \in DOMAIN macroProfileCache :
             /\ CompleteProfile(macroProfileCache[key])
             /\ \/ <<key, macroProfileCache[key]>> \in fcLog.returned
                \/ /\ key \in DOMAIN FALLBACK_PROFILES
                   /\ macroProfileCache[key] = FALLBACK_PROFILES[key] )
    /\ [][ \A s \in FcSessions :
             ( /\ fcCall'[s].made = fcCall[s].made + 1
               /\ fcCall'[s].name # ""
               /\ ToLowerCase(standardizeFoodName(fcCall'[s].name)) \in DOMAIN macroProfileCache )
             => /\ fcCall'[s].pc = "idle"
                /\ fcCall'[s].out = [ status |-> "profile",
                                      profile |-> macroProfileCache[
                                          ToLowerCase(standardizeFoodName(fcCall'[s].name))] ]
                /\ fcLog'.lookups = fcLog.lookups
                /\ macroProfileCache' = macroProfileCache ]_vars

\* C25 witness: both sessions missed on the key "banana" and looked it up;
\* the entry is the profile of the lookup that finished last, built from a
\* record without a fat value, and the other session was given the profile
\* of its own lookup.
C25_Witness ==
    /\ fcLog.lookups = 2
    /\ "banana" \in DOMAIN macroProfileCache
    /\ macroProfileCache["banana"] = Profile(90, 10, 230, 0)
    /\ fcCall["s1"].pc = "idle" /\ fcCall["s2"].pc = "idle"
    /\ fcCall["s1"].name = "Banana" /\ fcCall["s2"].name = "banana"
    /\ fcCall["s1"].out = [status |-> "profile", profile |-> Profile(89, 11, 228, 3)]
    /\ fcCall["s2"].out = [status |-> "profile", profile |-> Profile(90, 10, 230, 0)]


====
